---- MODULE Spec2Model ----
(***************************************************************************)
(* Model of the signal-gating, consistency, freeze-policy, order-book,     *)
(* calendar and daily-run core of the earnings-call paper-trading backend. *)
(*                                                                         *)
(*   backend/papertrading/order_book.py    OrderBook                       *)
(*   backend/signals/gate.py               DeterministicGate               *)
(*   backend/eval/consistency_checker.py   ConsistencyChecker,             *)
(*                                         MultiRunAnalyzer                *)
(*   backend/papertrading/freeze_policy.py FreezePolicy, validate_runtime  *)
(*   backend/core/trading_calendar.py      TradingCalendar                 *)
(*   backend/papertrading/runner.py        PaperTradingRunner              *)
(*   backend/papertrading/scheduler.py     DailyScheduler                  *)
(*   backend/llm/score_only_runner.py      ScoreOnlyRunner.prompt_hash,    *)
(*                                         _get_prompt_template            *)
(*   backend/llm/prompt_registry.py        PromptRegistry.load             *)
(*   scripts/daily_signal_v10.py           add_position, check_exits       *)
(*                                         main --init-positions           *)
(*                                                                         *)
(* Optional values (Python None) are sequences of length 0 or 1.           *)
(* Floats are scaled integers: scores and thresholds in hundredths,        *)
(* prices in whole units, ratios as <<numerator, denominator>>.  Where the *)
(* code formats a float (the agreement rate as a percentage) the binary64  *)
(* value is computed: a 53-bit significand in three limbs and an exponent. *)
(***************************************************************************)
EXTENDS Integers, Sequences, FiniteSets, TLC

VARIABLES
    orders,        \* OrderBook._orders: order_id -> PaperOrder
    orderKeys,     \* the keys of OrderBook._orders in insertion order
    gateInput,     \* constructor and evaluate arguments of the gate call under study
    gate,          \* the constructed DeterministicGate (its three attributes)
    gateResult,    \* GateResult of evaluate (None before the call)
    ccInput,       \* ConsistencyChecker configuration (as it is now) and the results
                   \* the runs return
    ccResult,      \* outcome of check_event (None before the call)
    mraFinal,      \* outcome of MultiRunAnalyzer.analyze_with_consistency
    mraRuns,       \* run_results of an analyze_with_consistency call suspended in
                   \* await analysis_fn(...) (None when no call is suspended)
    manifestFile,  \* contents of papertrading_freeze_manifest.json (None when absent)
    frozenPeriod,  \* date.today() >= date(2026, 1, 1), the default freeze boundary
    frozenConfig,  \* module global _frozen_config (None until first get_frozen_config)
    lastCall,      \* the freeze-policy call that has just returned or raised (else None)
    livePrompt,    \* the batch-score prompt file on disk, if there is one: its content
                   \* hash, or the mark of a file that does not parse
    promptAtFreeze, \* content hash the prompt had when the manifest was created
    promptCache,   \* PromptRegistry._cache of the process: the hash of the template
                   \* it first parsed from the file (None before)
    loadedPrompt,  \* ScoreOnlyRunner._loaded_prompt of the analyzer in use: the hash
                   \* of the template it holds (None before it read one)
    exchangeDays,  \* the exchange's trading days (what the calendar's schedule() serves)
    calendar,      \* TradingCalendar: _trading_days_cache, _cache_start, _cache_end
    calCall,       \* the trading-calendar call that has just returned or raised
    dailyRun,      \* the daily-run step that has just finished, with what it looked up
    runPending,    \* a run_daily suspended at one of its awaits: where, and what it holds
    positions,     \* open_positions.json of the daily signal script: open and closed
    exitCheck      \* the check_exits call that has just returned (else None)

vars == << orders, orderKeys, gateInput, gate, gateResult, ccInput, ccResult, mraFinal,
           mraRuns,
           manifestFile, frozenPeriod, frozenConfig, lastCall, livePrompt,
           promptAtFreeze, promptCache, loadedPrompt, exchangeDays, calendar, calCall,
           dailyRun, runPending,
           positions,
           exitCheck >>

orderBookVars == << orders, orderKeys >>
gateVars == << gateInput, gate, gateResult >>
consistencyVars == << ccInput, ccResult, mraFinal, mraRuns >>
promptVars == << promptCache, loadedPrompt >>
freezeVars == << manifestFile, frozenPeriod, frozenConfig, lastCall, livePrompt,
                promptAtFreeze, promptVars >>
calendarVars == << exchangeDays, calendar, calCall >>
dailyVars == << dailyRun, runPending >>
exitVars == << positions, exitCheck >>

None == << >>
Some(v) == << v >>
IsNone(o) == o = << >>
Opt(S) == { None } \cup { Some(v) : v \in S }

(***************************************************************************)
(* OrderBook                                                               *)
(***************************************************************************)

\* OrderStatus enum values
PENDING == "pending"
OPEN == "open"
CLOSED == "closed"
CANCELLED == "cancelled"
OrderStatus == { PENDING, OPEN, CLOSED, CANCELLED }

\* order ids (open_position draws "paper_" + 8 hex digits)
OrderIds == { "paper_a", "paper_b" }
\* calendar dates 1..MaxDate
MaxDate == 2
Dates == 1 .. MaxDate
\* close prices handed to mark_entered / mark_exited
Prices == { 0, 100 }

\* PaperOrder as first constructed: execution fields unset.  The wall-clock
\* timestamps created_at / entered_at / exited_at are not represented.
PaperOrder(status, entry_date, exit_date) ==
    [ status      |-> status,
      entry_date  |-> entry_date,
      exit_date   |-> exit_date,
      entry_price |-> None,
      exit_price  |-> None,
      return_pct  |-> None ]

\* self._orders[order.order_id] = order
StoreOrder(book, id, order) ==
    [ i \in (DOMAIN book) \cup { id } |-> IF i = id THEN order ELSE book[i] ]

\* the keys of self._orders after self._orders[order.order_id] = order: a new
\* key goes last, an existing key keeps its place
StoreKey(keys, id) ==
    IF \E k \in DOMAIN keys : keys[k] = id THEN keys ELSE Append(keys, id)

\* mutant: overdue orders are selected too
Mut_get_pending_entries(book, as_of_date) ==
    { i \in DOMAIN book :
        book[i].status = PENDING /\ book[i].entry_date <= as_of_date }

get_pending_entries(book, as_of_date) ==
    { i \in DOMAIN book :
        book[i].status = PENDING /\ book[i].entry_date = as_of_date }

get_pending_exits(book, as_of_date) ==
    { i \in DOMAIN book :
        book[i].status = OPEN /\ book[i].exit_date = as_of_date }

get_open_positions(book) ==
    { i \in DOMAIN book : book[i].status = OPEN }

\* the order after mark_entered: status set unconditionally
EnteredOrder(order, entry_price) ==
    [ order EXCEPT !.status = OPEN,
                   !.entry_price = Some(entry_price) ]

\* mutant: the return is taken relative to the exit price
Mut_ExitedOrder(order, exit_price) ==
    [ order EXCEPT !.status = CLOSED,
                   !.exit_price = Some(exit_price),
                   !.return_pct =
                       IF ~IsNone(order.entry_price) /\ order.entry_price[1] # 0
                       THEN Some(<< exit_price - order.entry_price[1], exit_price >>)
                       ELSE order.return_pct ]

\* the order after mark_exited: status set unconditionally; return_pct is
\* (exit_price - entry_price) / entry_price when entry_price is truthy
ExitedOrder(order, exit_price) ==
    [ order EXCEPT !.status = CLOSED,
                   !.exit_price = Some(exit_price),
                   !.return_pct =
                       IF ~IsNone(order.entry_price) /\ order.entry_price[1] # 0
                       THEN Some(<< exit_price - order.entry_price[1],
                                    order.entry_price[1] >>)
                       ELSE order.return_pct ]

\* the order after cancel_order: status set unconditionally
CancelledOrder(order) ==
    [ order EXCEPT !.status = CANCELLED ]

\* the order after close_due_positions touched it: no exit price recorded
DueClosedOrder(order) ==
    [ order EXCEPT !.status = CLOSED ]

add_order(id, status, entry_date, exit_date) ==
    /\ orders' = StoreOrder(orders, id, PaperOrder(status, entry_date, exit_date))
    /\ orderKeys' = StoreKey(orderKeys, id)
    /\ UNCHANGED << gateVars, consistencyVars, freezeVars,
                    calendarVars, dailyVars, exitVars >>

open_position(id, entry_date, exit_date) ==
    /\ orders' = StoreOrder(orders, id, PaperOrder(PENDING, entry_date, exit_date))
    /\ orderKeys' = StoreKey(orderKeys, id)
    /\ UNCHANGED << gateVars, consistencyVars, freezeVars,
                    calendarVars, dailyVars, exitVars >>

\* order = self._orders[order_id] raises KeyError for an unknown id
mark_entered(id, entry_price) ==
    /\ id \in DOMAIN orders
    /\ orders' = [ orders EXCEPT ![id] = EnteredOrder(@, entry_price) ]
    /\ UNCHANGED << orderKeys, gateVars, consistencyVars, freezeVars,
                    calendarVars, dailyVars, exitVars >>

mark_exited(id, exit_price) ==
    /\ id \in DOMAIN orders
    /\ orders' = [ orders EXCEPT ![id] = ExitedOrder(@, exit_price) ]
    /\ UNCHANGED << orderKeys, gateVars, consistencyVars, freezeVars,
                    calendarVars, dailyVars, exitVars >>

cancel_order(id) ==
    /\ id \in DOMAIN orders
    /\ orders' = [ orders EXCEPT ![id] = CancelledOrder(@) ]
    /\ UNCHANGED << orderKeys, gateVars, consistencyVars, freezeVars,
                    calendarVars, dailyVars, exitVars >>

close_due_positions(as_of_date) ==
    /\ orders' = [ i \in DOMAIN orders |->
                     IF i \in get_pending_exits(orders, as_of_date)
                     THEN DueClosedOrder(orders[i])
                     ELSE orders[i] ]
    /\ UNCHANGED << orderKeys, gateVars, consistencyVars, freezeVars,
                    calendarVars, dailyVars, exitVars >>

AddOrder ==
    \E id \in OrderIds, st \in OrderStatus, en \in Dates, ex \in Dates :
        add_order(id, st, en, ex)

OpenPosition ==
    \E id \in OrderIds, en \in Dates, ex \in Dates : open_position(id, en, ex)

MarkEntered == \E id \in OrderIds, p \in Prices : mark_entered(id, p)

MarkExited == \E id \in OrderIds, p \in Prices : mark_exited(id, p)

CancelOrder == \E id \in OrderIds : cancel_order(id)

CloseDuePositions == \E d \in Dates : close_due_positions(d)

(***************************************************************************)
(* DeterministicGate                                                       *)
(***************************************************************************)

\* BlockReason enum values
SCORE_TOO_LOW == "score_below_threshold"
INSUFFICIENT_EVIDENCE == "insufficient_evidence"
EVIDENCE_NOT_TRIANGULATED == "evidence_not_triangulated"
MARGIN_CONCERN == "margin_concern_flagged"
DATA_INCOMPLETE == "data_incomplete"
SCHEMA_INVALID == "schema_validation_failed"
LLM_DECLINED == "llm_recommended_no_trade"

\* settings.strategy_score_threshold = 0.70 (hundredths), strategy_evidence_min_count
strategy_score_threshold == 70
strategy_evidence_min_count == 2

\* bounds of the analysis outputs fed to the gate
MaxEvidenceCount == 3
MaxSnippets == 2

\* scores in hundredths (BatchScoreOutput.score is in [0, 1])
GateScores == { 0, 69, 70, 82 }
Speakers == { "CEO", "CFO" }
Sections == { "prepared", "qa" }
Evidence == [ speaker : Speakers, section : Sections ]
SnippetLists == UNION { [ 1 .. n -> Evidence ] : n \in 0 .. MaxSnippets }

BatchScoreOutput ==
    [ score             : GateScores,
      trade_candidate   : BOOLEAN,
      evidence_count    : 0 .. MaxEvidenceCount,
      margin_concern    : BOOLEAN,
      evidence_snippets : SnippetLists ]

\* constructor arguments (None = omitted) and evaluate arguments
GateInputs ==
    [ score_threshold         : Opt({ 0, 75 }),
      evidence_min_count      : Opt({ 0, 3 }),
      block_on_margin_concern : BOOLEAN,
      llm_output              : Opt(BatchScoreOutput),
      data_complete           : BOOLEAN ]

\* Python `arg or default`: None and 0 are both falsy
OrDefault(arg, default) ==
    IF IsNone(arg) \/ arg[1] = 0 THEN default ELSE arg[1]

\* DeterministicGate.__init__
DeterministicGate(score_threshold, evidence_min_count, block_on_margin_concern) ==
    [ score_threshold         |-> OrDefault(score_threshold, strategy_score_threshold),
      evidence_min_count      |-> OrDefault(evidence_min_count, strategy_evidence_min_count),
      block_on_margin_concern |-> block_on_margin_concern ]

Range(seq) == { seq[i] : i \in DOMAIN seq }

\* mutant: the reported evidence_count stands in for the snippets
Mut_check_triangulation(llm_output) ==
    IF llm_output.evidence_count < 2
    THEN FALSE
    ELSE LET speakers == { e.speaker : e \in Range(llm_output.evidence_snippets) }
             sections == { e.section : e \in Range(llm_output.evidence_snippets) }
         IN  Cardinality(speakers) > 1 \/ Cardinality(sections) > 1

_check_triangulation(llm_output) ==
    IF Len(llm_output.evidence_snippets) < 2
    THEN FALSE
    ELSE LET speakers == { e.speaker : e \in Range(llm_output.evidence_snippets) }
             sections == { e.section : e \in Range(llm_output.evidence_snippets) }
         IN  Cardinality(speakers) > 1 \/ Cardinality(sections) > 1

Min(a, b) == IF a <= b THEN a ELSE b
Max(a, b) == IF a >= b THEN a ELSE b

\* confidence in thousandths:
\*   round(clamp(0.5*score + 0.3*checks/6 + 0.2*min(evidence_count/3, 1)), 3)
\* = round((15*score + 150*checks + 200*min(evidence_count, 3)) / 3) thousandths
_calculate_confidence(llm_output, checks_passed) ==
    LET thirds == 15 * llm_output.score + 150 * checks_passed
                    + 200 * Min(llm_output.evidence_count, 3)
        rounded == (thirds + 1) \div 3
    IN  Min(Max(rounded, 0), 1000)

\* mutant: once a check has failed, later failures are not reported
Mut_Check(acc, passed, name, reason) ==
    IF passed
    THEN [ acc EXCEPT !.passed_checks = Append(@, name) ]
    ELSE IF acc.block_reasons # << >>
         THEN acc
         ELSE [ acc EXCEPT !.block_reasons = Append(@, reason) ]

\* one check of evaluate: append to block_reasons or to passed_checks
Check(acc, passed, name, reason) ==
    IF passed
    THEN [ acc EXCEPT !.passed_checks = Append(@, name) ]
    ELSE [ acc EXCEPT !.block_reasons = Append(@, reason) ]

\* mutant: the LLM's own recommendation is not consulted
Mut_LlmCheck(g, llm_output, acc) ==
    Check(acc, TRUE, "llm_recommended_trade", LLM_DECLINED)

\* check 6 of evaluate: the LLM's own recommendation
LlmCheck(g, llm_output, acc) ==
    Check(acc, llm_output.trade_candidate, "llm_recommended_trade", LLM_DECLINED)

\* the six checks of evaluate, in source order
RunChecks(g, llm_output, data_complete) ==
    LET c0 == [ block_reasons |-> << >>, passed_checks |-> << >> ]
        c1 == Check(c0, data_complete, "data_complete", DATA_INCOMPLETE)
        c2 == Check(c1, llm_output.score >= g.score_threshold,
                    "score >= threshold", SCORE_TOO_LOW)
        c3 == Check(c2, llm_output.evidence_count >= g.evidence_min_count,
                    "evidence_count >= min", INSUFFICIENT_EVIDENCE)
        c4 == Check(c3, _check_triangulation(llm_output),
                    "evidence_triangulated", EVIDENCE_NOT_TRIANGULATED)
        c5 == Check(c4, ~(g.block_on_margin_concern /\ llm_output.margin_concern),
                    "no_critical_red_flags", MARGIN_CONCERN)
    IN  LlmCheck(g, llm_output, c5)

\* mutant: a missing output is reported as incomplete data
Mut_SchemaInvalidResult(g) ==
    [ trade_long           |-> FALSE,
      block_reasons        |-> << DATA_INCOMPLETE >>,
      passed_checks        |-> << >>,
      final_score          |-> 0,
      confidence           |-> 0,
      score_threshold_used |-> g.score_threshold,
      evidence_min_used    |-> g.evidence_min_count ]

\* the early return for a missing output
SchemaInvalidResult(g) ==
    [ trade_long           |-> FALSE,
      block_reasons        |-> << SCHEMA_INVALID >>,
      passed_checks        |-> << >>,
      final_score          |-> 0,
      confidence           |-> 0,
      score_threshold_used |-> g.score_threshold,
      evidence_min_used    |-> g.evidence_min_count ]

\* mutant: one failed check is tolerated
Mut_FinalDecision(block_reasons) == Len(block_reasons) <= 1

\* trade_long = len(block_reasons) == 0
FinalDecision(block_reasons) == Len(block_reasons) = 0

\* DeterministicGate.evaluate
evaluate(g, llm_output, data_complete) ==
    IF IsNone(llm_output)
    THEN SchemaInvalidResult(g)
    ELSE LET acc == RunChecks(g, llm_output[1], data_complete)
         IN  [ trade_long           |-> FinalDecision(acc.block_reasons),
               block_reasons        |-> acc.block_reasons,
               passed_checks        |-> acc.passed_checks,
               final_score          |-> llm_output[1].score,
               confidence           |-> _calculate_confidence(llm_output[1],
                                            Len(acc.passed_checks)),
               score_threshold_used |-> g.score_threshold,
               evidence_min_used    |-> g.evidence_min_count ]

Evaluate ==
    /\ ~IsNone(gate)
    /\ IsNone(gateResult)
    /\ gateResult' = Some(evaluate(gate[1], gateInput[1].llm_output,
                                   gateInput[1].data_complete))
    /\ UNCHANGED << gateInput, gate, orderBookVars, consistencyVars, freezeVars,
                    calendarVars, dailyVars, exitVars >>

(***************************************************************************)
(* ConsistencyChecker / MultiRunAnalyzer                                   *)
(***************************************************************************)

\* largest number of runs K
MaxK == 5

\* ConsistencyChecker.min_agreement in percent (default 0.8)
MinAgreements == { 60, 80 }

\* analysis results (dicts) a run can return; an absent key is None
RunDict(trade_long, trade_candidate, score) ==
    [ trade_long |-> trade_long, trade_candidate |-> trade_candidate, score |-> score ]

RunDicts ==
    { RunDict(Some(TRUE), None, Some(90)),
      RunDict(Some(FALSE), None, Some(40)),
      RunDict(None, Some(TRUE), Some(90)),
      RunDict(None, Some(FALSE), Some(40)),
      RunDict(Some(FALSE), Some(TRUE), Some(90)),
      RunDict(None, None, None) }

\* checker configuration and the K results the analysis function returns;
\* a list one short of k exercises the length check
ConsistencyInputs ==
    UNION { [ k             : { k },
              min_agreement : MinAgreements,
              run_results   : [ 1 .. (k - 1) -> RunDicts ] \cup [ 1 .. k -> RunDicts ] ]
            : k \in 1 .. MaxK }

\* r.get("trade_long", r.get("trade_candidate", False))
Decision(r) ==
    IF ~IsNone(r.trade_long) THEN r.trade_long[1]
    ELSE IF ~IsNone(r.trade_candidate) THEN r.trade_candidate[1]
    ELSE FALSE

\* r.get("score", 0.0)
Score(r) == IF ~IsNone(r.score) THEN r.score[1] ELSE 0

Count(decisions, v) == Cardinality({ i \in DOMAIN decisions : decisions[i] = v })

RECURSIVE Sum(_)
Sum(seq) == IF seq = << >> THEN 0 ELSE Head(seq) + Sum(Tail(seq))

\* Counter(decisions).most_common(1)[0][0]: the most frequent value; on a tie
\* the value counted first, i.e. the first run's decision
most_common(decisions) ==
    LET t == Count(decisions, TRUE)
        f == Count(decisions, FALSE)
    IN  IF t > f THEN TRUE
        ELSE IF f > t THEN FALSE
        ELSE decisions[1]

\* mutant: agreement must strictly exceed min_agreement
Mut_IsConsistent(majority_count, k, min_agreement) ==
    100 * majority_count > min_agreement * k

\* agreement_rate >= self.min_agreement, agreement_rate = majority_count / k
IsConsistent(majority_count, k, min_agreement) ==
    100 * majority_count >= min_agreement * k

Recommendation(is_consistent, majority_decision) ==
    IF ~is_consistent THEN "ABSTAIN"
    ELSE IF majority_decision THEN "TRADE"
    ELSE "NO_TRADE"

\* statistics.stdev(scores) squared: (K*sum(x^2) - sum(x)^2) / (K*(K-1))
SampleVariance(scores) ==
    IF Len(scores) > 1
    THEN << Len(scores) * Sum([ i \in DOMAIN scores |-> scores[i] * scores[i] ])
              - Sum(scores) * Sum(scores),
            Len(scores) * (Len(scores) - 1) >>
    ELSE << 0, 1 >>

ValueError == [ ok |-> FALSE, error |-> "ValueError" ]

\* ConsistencyChecker.check_event; rates are <<numerator, denominator>> and
\* score_std is carried as its square score_var
check_event(k, min_agreement, run_results) ==
    IF Len(run_results) # k
    THEN ValueError
    ELSE LET decisions == [ i \in DOMAIN run_results |-> Decision(run_results[i]) ]
             scores == [ i \in DOMAIN run_results |-> Score(run_results[i]) ]
             majority_decision == most_common(decisions)
             majority_count == Count(decisions, majority_decision)
             is_consistent == IsConsistent(majority_count, k, min_agreement)
         IN  [ ok                |-> TRUE,
               k_runs            |-> k,
               decisions         |-> decisions,
               scores            |-> scores,
               is_consistent     |-> is_consistent,
               majority_decision |-> majority_decision,
               agreement_rate    |-> << majority_count, k >>,
               score_var         |-> SampleVariance(scores),
               recommendation    |-> Recommendation(is_consistent, majority_decision) ]

\* ConsistencyResult.agreement_rate is a Python float (IEEE 754 binary64).
\* A double is [ sig, exp ]: sig = << s2, s1, s0 >> is its 53-digit
\* significand in limbs of 18 binary digits (17 in the first, which begins
\* with the leading 1), and its value is sig * 2^exp.
Limb == 2 ^ 18
TopLimb == 2 ^ 17

\* the number of zeros before the first 1 among the binary digits of r / b
\* (0 < r < b)
RECURSIVE LeadingZeros(_, _)
LeadingZeros(r, b) == IF 2 * r >= b THEN 0 ELSE 1 + LeadingZeros(2 * r, b)

\* the double next above: sig + 1, renormalized when that takes a 54th digit
NextUp(x) ==
    LET sig == IF x.sig[3] + 1 < Limb THEN << x.sig[1], x.sig[2], x.sig[3] + 1 >>
               ELSE IF x.sig[2] + 1 < Limb THEN << x.sig[1], x.sig[2] + 1, 0 >>
               ELSE << x.sig[1] + 1, 0, 0 >>
    IN  IF sig[1] = TopLimb
        THEN [ sig |-> << TopLimb \div 2, 0, 0 >>, exp |-> x.exp + 1 ]
        ELSE [ sig |-> sig, exp |-> x.exp ]

\* round to nearest, ties to even: x is the value cut off after 53 digits,
\* rest / unit the part that was cut off
RoundHalfEven(x, rest, unit) ==
    IF 2 * rest > unit \/ (2 * rest = unit /\ x.sig[3] % 2 = 1)
    THEN NextUp(x)
    ELSE x

\* majority_count / self.k: int true division, correctly rounded
\* (0 < a <= b < 2^12).  The digits are those of a / 2b, which is below 1,
\* taken by long division from its first 1 on.
TrueDiv(a, b) ==
    LET z == LeadingZeros(a, 2 * b)
        r == a * 2 ^ z
        s2 == (r * TopLimb) \div (2 * b)
        r2 == (r * TopLimb) % (2 * b)
        s1 == (r2 * Limb) \div (2 * b)
        r1 == (r2 * Limb) % (2 * b)
        s0 == (r1 * Limb) \div (2 * b)
        r0 == (r1 * Limb) % (2 * b)
    IN  RoundHalfEven([ sig |-> << s2, s1, s0 >>, exp |-> 0 - z - 52 ], r0, 2 * b)

\* val *= 100 of the '%' presentation type: the double nearest to x * 100.
\* The product has 59 or 60 digits, of which the last 6 or 7 are cut off.
Times100(x) ==
    LET p0 == x.sig[3] * 100
        p1 == x.sig[2] * 100 + p0 \div Limb
        p2 == x.sig[1] * 100 + p1 \div Limb
        l0 == p0 % Limb
        l1 == p1 % Limb
        cut == IF p2 >= 2 ^ 23 THEN 2 ^ 7 ELSE 2 ^ 6
        exp == IF p2 >= 2 ^ 23 THEN x.exp + 7 ELSE x.exp + 6
        sig == << p2 \div cut,
                  (p2 % cut) * (Limb \div cut) + l1 \div cut,
                  (l1 % cut) * (Limb \div cut) + l0 \div cut >>
    IN  RoundHalfEven([ sig |-> sig, exp |-> exp ], l0 % cut, cut)

\* format(val, ".0f"): the integer nearest to the double, ties to even
\* (val below 2^16)
FixedFormat0(x) ==
    IF 0 - x.exp > 53
    THEN 0
    ELSE LET unit == 2 ^ (0 - x.exp - 36)
             whole == x.sig[1] \div unit
             rest == x.sig[1] % unit
             more == x.sig[2] # 0 \/ x.sig[3] # 0
         IN  IF \/ 2 * rest > unit
                \/ 2 * rest = unit /\ (more \/ whole % 2 = 1)
             THEN whole + 1
             ELSE whole

\* f"{agreement_rate:.0%}" of the float majority_count / k
PercentFormat(rate) ==
    FixedFormat0(Times100(TrueDiv(rate[1], rate[2])))

\* statistics.mean(scores)
Mean(scores) == << Sum(scores), Len(scores) >>

\* decisions.index(majority_decision)
IndexOf(decisions, v) ==
    CHOOSE i \in DOMAIN decisions :
        decisions[i] = v /\ \A j \in DOMAIN decisions : decisions[j] = v => i <= j

\* mutant: on ABSTAIN the majority decision is passed through
Mut_AbstainResult(consistency) ==
    [ ok               |-> TRUE,
      event_id         |-> Some("event"),
      score            |-> Some(Mean(consistency.scores)),
      trade_long       |-> Some(consistency.majority_decision),
      trade_candidate  |-> Some(consistency.majority_decision),
      no_trade_reason  |-> Some([ text |-> "Inconsistent results (% agreement)",
                                  agreement |-> PercentFormat(consistency.agreement_rate) ]),
      consistency_check |-> consistency ]

\* the conservative result built on ABSTAIN
AbstainResult(consistency) ==
    [ ok               |-> TRUE,
      event_id         |-> Some("event"),
      score            |-> Some(Mean(consistency.scores)),
      trade_long       |-> Some(FALSE),
      trade_candidate  |-> Some(FALSE),
      no_trade_reason  |-> Some([ text |-> "Inconsistent results (% agreement)",
                                  agreement |-> PercentFormat(consistency.agreement_rate) ]),
      consistency_check |-> consistency ]

\* the copy of the first run that voted with the majority
MajorityResult(run_results, consistency) ==
    LET run == run_results[IndexOf(consistency.decisions, consistency.majority_decision)]
    IN  [ ok               |-> TRUE,
          event_id         |-> None,
          score            |-> IF IsNone(run.score) THEN None
                               ELSE Some(<< run.score[1], 1 >>),
          trade_long       |-> run.trade_long,
          trade_candidate  |-> run.trade_candidate,
          no_trade_reason  |-> None,
          consistency_check |-> consistency ]

\* MultiRunAnalyzer.analyze_with_consistency, given the K results the
\* analysis function returned
analyze_with_consistency(k, min_agreement, run_results) ==
    LET consistency == check_event(k, min_agreement, run_results)
    IN  IF ~consistency.ok THEN ValueError
        ELSE IF consistency.recommendation = "ABSTAIN"
        THEN AbstainResult(consistency)
        ELSE MajorityResult(run_results, consistency)

\* checker.check_event(event_id, run_results) called directly
CheckEvent ==
    /\ ~IsNone(ccInput)
    /\ IsNone(ccResult)
    /\ IsNone(mraRuns)
    /\ ccResult' = Some(check_event(ccInput[1].k, ccInput[1].min_agreement,
                                    ccInput[1].run_results))
    /\ UNCHANGED << ccInput, mraFinal, mraRuns, orderBookVars, gateVars, freezeVars,
                    calendarVars, dailyVars, exitVars >>

\* the rest of analyze_with_consistency once the loop has ended: the checker
\* and its k and min_agreement are read here, as they are by now
FinishAnalysis(run_results) ==
    /\ mraFinal' = Some(analyze_with_consistency(ccInput[1].k, ccInput[1].min_agreement,
                                                 run_results))
    /\ ccResult' = Some(check_event(ccInput[1].k, ccInput[1].min_agreement,
                                    run_results))
    /\ mraRuns' = None

\* analyzer.analyze_with_consistency(event_id, transcript_pack, analysis_fn)
\* up to its first await: the analysis function will be awaited once per
\* result it has to return (range(self.k) is fixed here); with no run to make
\* the call goes through without suspending
AnalyzeWithConsistency ==
    /\ ~IsNone(ccInput)
    /\ IsNone(ccResult)
    /\ IsNone(mraFinal)
    /\ IsNone(mraRuns)
    /\ IF Len(ccInput[1].run_results) = 0
       THEN FinishAnalysis(<< >>)
       ELSE mraRuns' = Some(<< >>) /\ UNCHANGED << ccResult, mraFinal >>
    /\ UNCHANGED << ccInput, orderBookVars, gateVars, freezeVars,
                    calendarVars, dailyVars, exitVars >>

\* an awaited analysis_fn returns: run_results.append(result); the call
\* suspends again in the next await, or after the last run checks the
\* consistency and builds the final result
AnalysisFnReturns ==
    /\ ~IsNone(mraRuns)
    /\ LET run_results == Append(mraRuns[1],
                                 ccInput[1].run_results[Len(mraRuns[1]) + 1])
       IN  IF Len(run_results) = Len(ccInput[1].run_results)
           THEN FinishAnalysis(run_results)
           ELSE mraRuns' = Some(run_results) /\ UNCHANGED << ccResult, mraFinal >>
    /\ UNCHANGED << ccInput, orderBookVars, gateVars, freezeVars,
                    calendarVars, dailyVars, exitVars >>

\* another task assigns checker.min_agreement while the call is suspended
SetMinAgreement ==
    /\ ~IsNone(mraRuns)
    /\ \E m \in MinAgreements \ { ccInput[1].min_agreement } :
          ccInput' = Some([ ccInput[1] EXCEPT !.min_agreement = m ])
    /\ UNCHANGED << ccResult, mraFinal, mraRuns, orderBookVars, gateVars, freezeVars,
                    calendarVars, dailyVars, exitVars >>

(***************************************************************************)
(* FreezePolicy, get_frozen_config, validate_runtime                       *)
(***************************************************************************)

\* values of the frozen parameters (thresholds in hundredths)
GitCommits == { "HEAD", "abc123" }
BatchModels == { "gpt-4o-mini", "gpt-4o" }
AuditModels == { "claude-3.5-sonnet", "claude-3-opus" }
PromptVersions == { "v1.0.0", "v1.1.0" }
ScoreThresholds == { 70, 75 }
EvidenceMins == { 2, 3 }
UniverseFilters == Opt({ "sp500" })
PromptHashes == { "prompt_hash_1", "prompt_hash_2" }

\* FreezePolicy.freeze_boundary.isoformat(); the first is the default
DefaultFreezeBoundary == "2026-01-01"
FreezeBoundaries == { DefaultFreezeBoundary, "2020-01-01" }

\* keyword arguments create_manifest accepts
ManifestArgs ==
    [ git_commit                 : GitCommits,
      batch_score_model          : BatchModels,
      full_audit_model           : AuditModels,
      batch_score_prompt_version : PromptVersions,
      full_audit_prompt_version  : PromptVersions,
      score_threshold            : ScoreThresholds,
      evidence_min_count         : EvidenceMins,
      block_on_margin_concern    : BOOLEAN,
      universe_filter            : UniverseFilters ]

\* json.dumps({...}, sort_keys=True): the nine hashed items in key order
HashedContent(a) ==
    << << "batch_score_model", a.batch_score_model >>,
       << "batch_score_prompt_version", a.batch_score_prompt_version >>,
       << "block_on_margin_concern", a.block_on_margin_concern >>,
       << "evidence_min_count", a.evidence_min_count >>,
       << "full_audit_model", a.full_audit_model >>,
       << "full_audit_prompt_version", a.full_audit_prompt_version >>,
       << "git_commit", a.git_commit >>,
       << "score_threshold", a.score_threshold >>,
       << "universe_filter", a.universe_filter >> >>

\* hashlib.sha256(content).hexdigest(), taken as collision-free: the digest
\* stands for exactly the content that was hashed
Sha256(content) == [ sha256 |-> content ]

\* the FreezeManifest create_manifest builds (frozen_at, a wall-clock
\* timestamp, is not represented)
create_manifest(freeze_boundary, a) ==
    [ freeze_boundary            |-> freeze_boundary,
      git_commit                 |-> a.git_commit,
      batch_score_model          |-> a.batch_score_model,
      full_audit_model           |-> a.full_audit_model,
      batch_score_prompt_version |-> a.batch_score_prompt_version,
      full_audit_prompt_version  |-> a.full_audit_prompt_version,
      score_threshold            |-> a.score_threshold,
      evidence_min_count         |-> a.evidence_min_count,
      block_on_margin_concern    |-> a.block_on_margin_concern,
      universe_filter            |-> a.universe_filter,
      manifest_hash              |-> Sha256(HashedContent(a)) ]

\* outcomes of a call
Returned(value) == [ error |-> "", message |-> "", mismatches |-> << >>, value |-> value ]
Raised(error, message, mismatches) ==
    [ error |-> error, message |-> message, mismatches |-> mismatches, value |-> FALSE ]
TypeError == Raised("TypeError", "unexpected keyword argument", << >>)
NoManifestError == Raised("ValueError", "In frozen period but no manifest exists", << >>)
MismatchError(mismatches) ==
    Raised("ValueError", "Configuration mismatch in frozen period", mismatches)

Call(fn, args, outcome) == [ fn |-> fn, args |-> args, outcome |-> outcome ]

\* one comparison: f"{name}: {live} != {frozen}" appended when they differ
Mismatch(name, live, frozen) ==
    IF live # frozen
    THEN << [ field |-> name, live |-> live, frozen |-> frozen ] >>
    ELSE << >>

\* positional arguments of FreezePolicy.validate_config
ConfigArgs ==
    [ batch_score_model          : BatchModels,
      full_audit_model           : AuditModels,
      batch_score_prompt_version : PromptVersions,
      score_threshold            : ScoreThresholds,
      evidence_min_count         : EvidenceMins ]

\* mutant: the evidence minimum is not compared
Mut_ConfigMismatches(c, manifest) ==
    Mismatch("batch_score_model", c.batch_score_model, manifest.batch_score_model)
    \o Mismatch("full_audit_model", c.full_audit_model, manifest.full_audit_model)
    \o Mismatch("prompt_version", c.batch_score_prompt_version,
                manifest.batch_score_prompt_version)
    \o Mismatch("score_threshold", c.score_threshold, manifest.score_threshold)

\* the five comparisons of validate_config, in source order
ConfigMismatches(c, manifest) ==
    Mismatch("batch_score_model", c.batch_score_model, manifest.batch_score_model)
    \o Mismatch("full_audit_model", c.full_audit_model, manifest.full_audit_model)
    \o Mismatch("prompt_version", c.batch_score_prompt_version,
                manifest.batch_score_prompt_version)
    \o Mismatch("score_threshold", c.score_threshold, manifest.score_threshold)
    \o Mismatch("evidence_min_count", c.evidence_min_count, manifest.evidence_min_count)

\* FreezePolicy.validate_config of the default policy
validate_config(frozen_period, manifest_file, c) ==
    IF ~frozen_period THEN Returned(TRUE)
    ELSE IF IsNone(manifest_file) THEN NoManifestError
    ELSE LET mismatches == ConfigMismatches(c, manifest_file[1])
         IN  IF mismatches # << >> THEN MismatchError(mismatches) ELSE Returned(TRUE)

\* FrozenConfig() defaults
DefaultFrozenConfig ==
    [ model                   |-> "gpt-4o-mini",
      prompt_version          |-> "v1.0.0",
      score_threshold         |-> 70,
      evidence_min_count      |-> 2,
      block_on_margin_concern |-> TRUE,
      is_frozen               |-> FALSE ]

\* get_frozen_config: the cached value if any, else built from the manifest
get_frozen_config(cache, manifest_file) ==
    IF ~IsNone(cache) THEN cache[1]
    ELSE IF ~IsNone(manifest_file)
    THEN [ model                   |-> manifest_file[1].batch_score_model,
           prompt_version          |-> manifest_file[1].batch_score_prompt_version,
           score_threshold         |-> manifest_file[1].score_threshold,
           evidence_min_count      |-> manifest_file[1].evidence_min_count,
           block_on_margin_concern |-> manifest_file[1].block_on_margin_concern,
           is_frozen               |-> TRUE ]
    ELSE DefaultFrozenConfig

\* keyword arguments handed to validate_runtime; None is an omitted argument,
\* "" an empty string given for a model or a prompt version.
\* prompt_hash is no parameter of the function.
RuntimeArgs ==
    [ batch_score_model  : Opt(BatchModels \cup { "" }),
      full_audit_model   : Opt(AuditModels),
      prompt_version     : Opt(PromptVersions \cup { "" }),
      score_threshold    : Opt(ScoreThresholds),
      evidence_min_count : Opt(EvidenceMins) ]

\* `if value is not None and value != frozen`: skipped for an omitted argument
OptMismatch(name, live, frozen) ==
    IF IsNone(live) THEN << >> ELSE Mismatch(name, live[1], frozen)

\* `if value and value != frozen`: skipped for an omitted argument and for an
\* empty string
StrMismatch(name, live, frozen) ==
    IF IsNone(live) \/ live[1] = "" THEN << >> ELSE Mismatch(name, live[1], frozen)

\* the four comparisons of validate_runtime; full_audit_model is accepted
\* and never compared
RuntimeMismatches(r, frozen) ==
    StrMismatch("batch_score_model", r.batch_score_model, frozen.model)
    \o StrMismatch("prompt_version", r.prompt_version, frozen.prompt_version)
    \o OptMismatch("score_threshold", r.score_threshold, frozen.score_threshold)
    \o OptMismatch("evidence_min_count", r.evidence_min_count, frozen.evidence_min_count)

\* validate_runtime, given the frozen config get_frozen_config returns
validate_runtime(frozen_period, frozen, r, prompt_hash) ==
    IF ~IsNone(prompt_hash) THEN TypeError
    ELSE IF ~frozen_period THEN Returned(TRUE)
    ELSE IF ~frozen.is_frozen THEN NoManifestError
    ELSE LET mismatches == RuntimeMismatches(r, frozen)
         IN  IF mismatches # << >> THEN MismatchError(mismatches) ELSE Returned(TRUE)

NoCallPending == IsNone(lastCall)

\* sha256 of ScoreOnlyRunner's built-in fallback prompts
FallbackPromptHash == "fallback_prompt_hash"

\* a prompt file _parse_prompt_file rejects: one with no System Prompt
\* section (a file with no User Prompt Template section, or whose
\* max_output_tokens is no number, raises ValueError at the same place with
\* another message)
UnparsablePrompt == "unparsable_prompt"

\* what the prompt file can hold: content with one of the hashes, or content
\* that cannot be parsed
PromptFiles == PromptHashes \cup { UnparsablePrompt }

\* analyzer.prompt_hash raised the registry's ValueError
PromptFormatError == Raised("ValueError", "Missing 'System Prompt' section", << >>)

\* PromptRegistry.load(prompt_id): the cached template; else the file parsed
\* and cached; FileNotFoundError when there is no prompt file, ValueError
\* when the file cannot be parsed (nothing is cached then)
load(cache, file) ==
    IF ~IsNone(cache)
    THEN [ cache |-> cache, raised |-> "", prompt_hash |-> cache[1] ]
    ELSE IF IsNone(file)
    THEN [ cache |-> cache, raised |-> "FileNotFoundError", prompt_hash |-> "" ]
    ELSE IF file[1] = UnparsablePrompt
    THEN [ cache |-> cache, raised |-> "ValueError", prompt_hash |-> "" ]
    ELSE [ cache |-> file, raised |-> "", prompt_hash |-> file[1] ]

\* ScoreOnlyRunner._get_prompt_template: the template the runner holds in
\* _loaded_prompt; else the registry's, or on FileNotFoundError the fallback
\* template, which the runner keeps and the registry does not cache.  The
\* registry's ValueError is not caught and leaves _loaded_prompt None.
_get_prompt_template(loaded_prompt, cache, file) ==
    IF ~IsNone(loaded_prompt)
    THEN [ loaded_prompt |-> loaded_prompt, cache |-> cache, raised |-> "",
           prompt_hash |-> loaded_prompt[1] ]
    ELSE LET loaded == load(cache, file)
         IN  IF loaded.raised = "FileNotFoundError"
             THEN [ loaded_prompt |-> Some(FallbackPromptHash), cache |-> cache,
                    raised |-> "", prompt_hash |-> FallbackPromptHash ]
             ELSE IF loaded.raised # ""
             THEN [ loaded_prompt |-> None, cache |-> cache,
                    raised |-> loaded.raised, prompt_hash |-> "" ]
             ELSE [ loaded_prompt |-> Some(loaded.prompt_hash), cache |-> loaded.cache,
                    raised |-> "", prompt_hash |-> loaded.prompt_hash ]

\* the _loaded_prompt an analyzer starts from: None when the analyzer is
\* constructed for the call, else what the analyzer in use holds
AnalyzerPrompt(new_analyzer) == IF new_analyzer THEN None ELSE loadedPrompt

\* policy.create_manifest(...) with the nine accepted arguments: builds the
\* manifest and save_manifest writes it over whatever file exists
CreateManifest ==
    /\ NoCallPending
    /\ \E b \in FreezeBoundaries, a \in ManifestArgs :
          manifestFile' = Some(create_manifest(b, a))
    /\ promptAtFreeze' = Some(livePrompt)
    /\ UNCHANGED << frozenPeriod, frozenConfig, lastCall, livePrompt, promptVars,
                    orderBookVars, gateVars, consistencyVars,
                    calendarVars, dailyVars, exitVars >>

\* policy.create_manifest(..., batch_score_prompt_hash=h): no such parameter
CreateManifestWithPromptHash ==
    /\ NoCallPending
    /\ \E h \in PromptHashes :
          lastCall' = Some(Call("create_manifest",
                                [ batch_score_prompt_hash |-> h ], TypeError))
    /\ UNCHANGED << manifestFile, frozenPeriod, frozenConfig, livePrompt, promptAtFreeze,
                    promptVars, orderBookVars, gateVars, consistencyVars,
                    calendarVars, dailyVars, exitVars >>

\* arguments freeze() is called with: its defaults, or every value changed
FreezeDefaults ==
    [ git_commit                 |-> "HEAD",
      batch_score_model          |-> "gpt-4o-mini",
      full_audit_model           |-> "claude-3.5-sonnet",
      batch_score_prompt_version |-> "v1.0.0",
      full_audit_prompt_version  |-> "v1.0.0",
      score_threshold            |-> 70,
      evidence_min_count         |-> 2,
      block_on_margin_concern    |-> TRUE,
      universe_filter            |-> None ]

FreezeCalls ==
    { FreezeDefaults,
      [ FreezeDefaults EXCEPT !.batch_score_model = "gpt-4o",
                              !.full_audit_model = "claude-3-opus",
                              !.batch_score_prompt_version = "v1.1.0",
                              !.score_threshold = 75,
                              !.evidence_min_count = 3 ] }

\* get_freeze_policy().freeze(...): create_manifest with eight arguments
Freeze ==
    /\ NoCallPending
    /\ \E a \in FreezeCalls :
          manifestFile' = Some(create_manifest(DefaultFreezeBoundary, a))
    /\ promptAtFreeze' = Some(livePrompt)
    /\ UNCHANGED << frozenPeriod, frozenConfig, lastCall, livePrompt, promptVars,
                    orderBookVars, gateVars, consistencyVars,
                    calendarVars, dailyVars, exitVars >>

\* the operator deletes the manifest file (the documented unlock)
DeleteManifest ==
    /\ NoCallPending
    /\ ~IsNone(manifestFile)
    /\ manifestFile' = None
    /\ promptAtFreeze' = None
    /\ UNCHANGED << frozenPeriod, frozenConfig, lastCall, livePrompt, promptVars,
                    orderBookVars, gateVars, consistencyVars,
                    calendarVars, dailyVars, exitVars >>

\* the calendar reaches the freeze boundary
PassFreezeBoundary ==
    /\ NoCallPending
    /\ ~frozenPeriod
    /\ frozenPeriod' = TRUE
    /\ UNCHANGED << manifestFile, frozenConfig, lastCall, livePrompt, promptAtFreeze,
                    promptVars, orderBookVars, gateVars, consistencyVars,
                    calendarVars, dailyVars, exitVars >>

\* the prompt file is written, edited or removed; its version label stays
\* what it was
EditPrompt ==
    /\ NoCallPending
    /\ \E h \in Opt(PromptFiles) \ { livePrompt } : livePrompt' = h
    /\ UNCHANGED << manifestFile, frozenPeriod, frozenConfig, lastCall, promptAtFreeze,
                    promptVars, orderBookVars, gateVars, consistencyVars,
                    calendarVars, dailyVars, exitVars >>

\* first get_frozen_config() of the process fills the module global
GetFrozenConfig ==
    /\ NoCallPending
    /\ IsNone(frozenConfig)
    /\ frozenConfig' = Some(get_frozen_config(frozenConfig, manifestFile))
    /\ UNCHANGED << manifestFile, frozenPeriod, lastCall, livePrompt, promptAtFreeze,
                    promptVars, orderBookVars, gateVars, consistencyVars,
                    calendarVars, dailyVars, exitVars >>

\* DailyScheduler.validate_freeze -> FreezePolicy.validate_config
ValidateConfig ==
    /\ NoCallPending
    /\ \E c \in ConfigArgs :
          lastCall' = Some(Call("validate_config", c,
                                validate_config(frozenPeriod, manifestFile, c)))
    /\ UNCHANGED << manifestFile, frozenPeriod, frozenConfig, livePrompt, promptAtFreeze,
                    promptVars, orderBookVars, gateVars, consistencyVars,
                    calendarVars, dailyVars, exitVars >>

\* validate_runtime(...) without a prompt_hash, or with analyzer.prompt_hash
\* of an analyzer constructed for the call (ScoreOnlyRunner(...), nothing
\* loaded yet) or of the analyzer in use.  Reading analyzer.prompt_hash may
\* raise the registry's ValueError; validate_runtime is not entered then.
ValidateRuntime ==
    /\ NoCallPending
    /\ \E r \in RuntimeArgs,
          hash_from \in { "omitted", "new_analyzer", "analyzer_in_use" } :
          LET frozen == get_frozen_config(frozenConfig, manifestFile)
              template == _get_prompt_template(AnalyzerPrompt(hash_from = "new_analyzer"),
                                               promptCache, livePrompt)
              prompt_hash == IF hash_from = "omitted" THEN None
                             ELSE Some(template.prompt_hash)
          IN  IF hash_from = "omitted"
              THEN /\ lastCall' = Some(Call("validate_runtime",
                                            [ r |-> r, prompt_hash |-> None ],
                                            validate_runtime(frozenPeriod, frozen, r,
                                                             None)))
                   /\ frozenConfig' = IF frozenPeriod THEN Some(frozen)
                                      ELSE frozenConfig
                   /\ UNCHANGED promptVars
              ELSE IF template.raised # ""
              THEN /\ lastCall' = Some(Call("analyzer.prompt_hash",
                                            [ r |-> r, prompt_hash |-> None ],
                                            PromptFormatError))
                   /\ loadedPrompt' = template.loaded_prompt
                   /\ UNCHANGED << frozenConfig, promptCache >>
              ELSE /\ lastCall' = Some(Call("validate_runtime",
                                            [ r |-> r, prompt_hash |-> prompt_hash ],
                                            validate_runtime(frozenPeriod, frozen, r,
                                                             prompt_hash)))
                   /\ promptCache' = template.cache
                   /\ loadedPrompt' = template.loaded_prompt
                   /\ UNCHANGED frozenConfig
    /\ UNCHANGED << manifestFile, frozenPeriod, livePrompt, promptAtFreeze,
                    orderBookVars, gateVars, consistencyVars,
                    calendarVars, dailyVars, exitVars >>

\* the caller takes the outcome and goes on
ReturnToCaller ==
    /\ ~NoCallPending
    /\ lastCall' = None
    /\ UNCHANGED << manifestFile, frozenPeriod, frozenConfig, livePrompt, promptAtFreeze,
                    promptVars, orderBookVars, gateVars, consistencyVars,
                    calendarVars, dailyVars, exitVars >>

(***************************************************************************)
(* TradingCalendar                                                         *)
(***************************************************************************)

\* calendar days are integers, day 0 is a Monday; the exchange's schedule is
\* known for the days 0 .. MaxCalDay
MaxCalDay == 45
CalDays == 0 .. MaxCalDay
Weekdays == { x \in CalDays : x % 7 < 5 }
\* market holidays that may fall on a Wednesday or on a Monday
MarketHolidays == { 2, 7 }
\* an exchange closure (or a gap in the calendar data): none, 29 days, 30 days
Closures == { { }, 2 .. 30, 2 .. 31 }
\* what schedule() can serve: weekdays less holidays less a closure, or nothing
ExchangeCalendars ==
    { (Weekdays \ hol) \ closed : hol \in SUBSET MarketHolidays, closed \in Closures }
        \cup { { } }

\* dates and counts the calendar is asked about
MaxEventDate == 6
EventDates == 0 .. MaxEventDate
TradingDayCounts == { -1, 0, 1, 2, 3, 29 }
HoldingDays == { 0, 1, 2, 3, 30 }

\* timedelta(days=...) paddings of _ensure_cache and its callers
CachePadBefore == 30
CachePadAfter == 60
NextDayCacheSpan == 10
\* the safety window of next_trading_day
LookaheadDays == 30

\* TradingCalendar() as constructed
NewCalendar ==
    [ _trading_days_cache |-> { }, _cache_start |-> None, _cache_end |-> None ]

\* self._calendar.schedule(start_date, end_date): the trading days in range
schedule(exchange, start_date, end_date) ==
    { x \in exchange : start_date <= x /\ x <= end_date }

\* the calendar after _ensure_cache(start, end): the cache is replaced when
\* the padded range is not inside the cached range
_ensure_cache(cal, exchange, start, end) ==
    LET cache_start == start - CachePadBefore
        cache_end == end + CachePadAfter
    IN  IF \/ IsNone(cal._cache_start)
           \/ IsNone(cal._cache_end)
           \/ cache_start < cal._cache_start[1]
           \/ cache_end > cal._cache_end[1]
        THEN [ _trading_days_cache |-> schedule(exchange, cache_start, cache_end),
               _cache_start |-> Some(cache_start),
               _cache_end |-> Some(cache_end) ]
        ELSE cal

\* outcome of a calendar call and the calendar it leaves behind
CalReturned(value) == [ ok |-> TRUE, error |-> "", value |-> value ]
CalValueError(message) == [ ok |-> FALSE, error |-> "ValueError", value |-> message ]
CalResult(cal, outcome) == [ calendar |-> cal, outcome |-> outcome ]

\* sorted(S) as a sequence (least first); Python index i is element i + 1
RECURSIVE sorted(_)
sorted(S) ==
    IF S = { }
    THEN << >>
    ELSE LET least == CHOOSE x \in S : \A y \in S : x <= y
         IN  << least >> \o sorted(S \ { least })

PyIndex(seq, i) == seq[i + 1]

is_trading_day(cal, exchange, d) ==
    LET c == _ensure_cache(cal, exchange, d, d)
    IN  CalResult(c, CalReturned(d \in c._trading_days_cache))

\* mutant: the search starts at d itself
Mut_FirstCandidate(d) ==
    d

\* next_day = d + timedelta(days=1)
FirstCandidate(d) ==
    d + 1

\* mutant: the window is one day longer
Mut_WindowExceeded(d, next_day) ==
    next_day > d + LookaheadDays + 1

\* if next_day > d + timedelta(days=30)
WindowExceeded(d, next_day) ==
    next_day > d + LookaheadDays

\* while next_day not in cache: next_day += 1; raise past the window
RECURSIVE NextDayLoop(_, _, _)
NextDayLoop(cache, d, next_day) ==
    IF next_day \in cache
    THEN CalReturned(next_day)
    ELSE IF WindowExceeded(d, next_day + 1)
         THEN CalValueError("No trading day found within 30 days")
         ELSE NextDayLoop(cache, d, next_day + 1)

next_trading_day(cal, exchange, d) ==
    LET c == _ensure_cache(cal, exchange, d, d + NextDayCacheSpan)
    IN  CalResult(c, NextDayLoop(c._trading_days_cache, d, FirstCandidate(d)))

\* mutant: the start date itself counts as a later trading day
Mut_FutureDays(cache, d) ==
    { td \in cache : td >= d }

\* [td for td in self._trading_days_cache if td > d]
FutureDays(cache, d) ==
    { td \in cache : td > d }

add_trading_days(cal, exchange, d, n) ==
    IF n <= 0
    THEN CalResult(cal, CalValueError("n must be positive"))
    ELSE LET c == _ensure_cache(cal, exchange, d, d + n * 2)
             future_trading_days == sorted(FutureDays(c._trading_days_cache, d))
         IN  IF Len(future_trading_days) < n
             THEN CalResult(c, CalValueError("Not enough trading days in cache"))
             ELSE CalResult(c, CalReturned(PyIndex(future_trading_days, n - 1)))

get_trading_days_between(cal, exchange, start, end) ==
    LET c == _ensure_cache(cal, exchange, start, end)
    IN  CalResult(c, CalReturned(sorted({ d \in c._trading_days_cache :
                                            start <= d /\ d <= end })))

count_trading_days(cal, exchange, start, end) ==
    LET between == get_trading_days_between(cal, exchange, start + 1, end)
    IN  CalResult(between.calendar, CalReturned(Len(between.outcome.value)))

calculate_entry_date(cal, exchange, event_date) ==
    next_trading_day(cal, exchange, event_date)

\* mutant: the entry day is not counted as day 1 of the hold
Mut_ExitOffset(holding_days) ==
    holding_days

\* add 29 more trading days from entry (entry is day 1): holding_days - 1
ExitOffset(holding_days) ==
    holding_days - 1

calculate_exit_date(cal, exchange, event_date, holding_days) ==
    LET entry == calculate_entry_date(cal, exchange, event_date)
    IN  IF ~entry.outcome.ok
        THEN entry
        ELSE add_trading_days(entry.calendar, exchange, entry.outcome.value,
                              ExitOffset(holding_days))

calculate_trading_dates(cal, exchange, event_date, holding_days) ==
    LET entry == calculate_entry_date(cal, exchange, event_date)
    IN  IF ~entry.outcome.ok
        THEN entry
        ELSE LET exit == calculate_exit_date(entry.calendar, exchange, event_date,
                                             holding_days)
             IN  IF ~exit.outcome.ok
                 THEN exit
                 ELSE LET trading_days ==
                              count_trading_days(exit.calendar, exchange,
                                                 entry.outcome.value, exit.outcome.value)
                      IN  CalResult(trading_days.calendar,
                                    CalReturned(
                                        [ t_day |-> event_date,
                                          entry_date |-> entry.outcome.value,
                                          exit_date |-> exit.outcome.value,
                                          trading_days_between |->
                                              trading_days.outcome.value ]))

NoCalendarCallPending == IsNone(calCall)

\* a call of the calendar: the cache it leaves and the outcome it hands back
CalendarCall(fn, args, result) ==
    /\ NoCalendarCallPending
    /\ calendar' = result.calendar
    /\ calCall' = Some(Call(fn, args, result.outcome))
    /\ UNCHANGED << exchangeDays, orderBookVars, gateVars, consistencyVars, freezeVars,
                    dailyVars, exitVars >>

IsTradingDay ==
    \E d \in EventDates :
        CalendarCall("is_trading_day", [ d |-> d ],
                     is_trading_day(calendar, exchangeDays, d))

NextTradingDay ==
    \E d \in EventDates :
        CalendarCall("next_trading_day", [ d |-> d ],
                     next_trading_day(calendar, exchangeDays, d))

AddTradingDays ==
    \E d \in EventDates, n \in TradingDayCounts :
        CalendarCall("add_trading_days", [ d |-> d, n |-> n ],
                     add_trading_days(calendar, exchangeDays, d, n))

CountTradingDays ==
    \E start \in EventDates, end \in EventDates :
        CalendarCall("count_trading_days", [ start |-> start, end |-> end ],
                     count_trading_days(calendar, exchangeDays, start, end))

CalculateTradingDates ==
    \E d \in EventDates, h \in HoldingDays :
        CalendarCall("calculate_trading_dates",
                     [ event_date |-> d, holding_days |-> h ],
                     calculate_trading_dates(calendar, exchangeDays, d, h))

\* the caller takes the date and goes on
CalendarReturn ==
    /\ ~NoCalendarCallPending
    /\ calCall' = None
    /\ UNCHANGED << exchangeDays, calendar, orderBookVars, gateVars, consistencyVars,
                    freezeVars, dailyVars, exitVars >>

(***************************************************************************)
(* Daily runs: PaperTradingRunner and DailyScheduler                       *)
(***************************************************************************)

\* what client.get_close_price(symbol, as_of_date) does for one order: returns
\* a price, returns None, or raises
LookupPrice(p) == [ kind |-> "price", price |-> p ]
LookupNone == [ kind |-> "none", price |-> 0 ]
LookupRaises == [ kind |-> "raises", price |-> 0 ]
PriceLookups == { LookupNone, LookupRaises } \cup { LookupPrice(p) : p \in Prices }

\* mutant: a lookup that returns None fills the order too
Mut_LookupFills(lookup) ==
    lookup.kind # "raises"

\* entry_price is not None, and get_close_price did not raise
LookupFills(lookup) ==
    lookup.kind = "price"

\* the orders _fill_pending_entries marks as entered
FilledIds(book, as_of_date, lookups) ==
    { i \in get_pending_entries(book, as_of_date) : LookupFills(lookups[i]) }

\* PaperTradingRunner._fill_pending_entries: the book it leaves and the count
\* it returns; an exception outside the loop gives 0
_fill_pending_entries(book, as_of_date, client_available, lookups) ==
    IF ~client_available
    THEN [ book |-> book, count |-> 0 ]
    ELSE LET filled == FilledIds(book, as_of_date, lookups)
         IN  [ book  |-> [ i \in DOMAIN book |->
                             IF i \in filled
                             THEN EnteredOrder(book[i], lookups[i].price)
                             ELSE book[i] ],
               count |-> Cardinality(filled) ]

\* the list [order for order in self._orders.values() if ...] of the orders
\* in ids: dict values come in insertion order
InsertionOrder(keys, ids) ==
    SelectSeq(keys, LAMBDA i : i \in ids)

\* OrderBook.close_due_positions as a call: it takes as_of_date only, so a
\* price_fetcher keyword argument raises TypeError before anything is closed;
\* closed is the list it returns
close_due_positions_call(book, keys, as_of_date, price_fetcher_passed) ==
    IF price_fetcher_passed
    THEN [ book |-> book, raised |-> "TypeError", closed |-> << >> ]
    ELSE [ book   |-> [ i \in DOMAIN book |->
                          IF i \in get_pending_exits(book, as_of_date)
                          THEN DueClosedOrder(book[i])
                          ELSE book[i] ],
           raised |-> "",
           closed |-> InsertionOrder(keys, get_pending_exits(book, as_of_date)) ]

\* PaperTradingRunner._close_due_positions: calls close_due_positions with
\* price_fetcher=...; any exception is logged and 0 returned
_close_due_positions(book, keys, as_of_date) ==
    LET call == close_due_positions_call(book, keys, as_of_date, TRUE)
    IN  IF call.raised # ""
        THEN [ book |-> book, count |-> 0 ]
        ELSE [ book |-> call.book, count |-> Len(call.closed) ]

\* one entry of a result's errors list: str(e) or a formatted message
RunError(text, detail) == [ text |-> text, detail |-> detail ]
ErrorOf(outcome) == RunError(outcome.message, outcome.mismatches)

\* DailyRunResult of the scheduler (run_id, timestamp, cost not represented)
SchedulerResult(entries_executed, exits_executed, errors) ==
    [ status           |-> "",
      events_found     |-> 0,
      events_analyzed  |-> 0,
      trade_signals    |-> 0,
      no_trade_signals |-> 0,
      orders_created   |-> 0,
      entries_executed |-> entries_executed,
      exits_executed   |-> exits_executed,
      errors           |-> errors ]

\* mutant: the validation error is dropped from the result
Mut_HaltedSchedulerResult(outcome) ==
    SchedulerResult(0, 0, << >>)

\* the result returned from the except ValueError branch: errors=[str(e)]
HaltedSchedulerResult(outcome) ==
    SchedulerResult(0, 0, << ErrorOf(outcome) >>)

\* for order in pending: errors.append(f"... pending for {order.order_id} ...")
PendingErrors(text, due) ==
    [ k \in DOMAIN due |-> RunError(text, << due[k] >>) ]

\* DailyScheduler.run_daily: validate_freeze, then one error per entry and
\* per exit due on run_date (nothing is executed without market data); a
\* TypeError or other non-ValueError would propagate, validate_config raises
\* none
scheduler_run_daily(book, keys, run_date, dry_run, validation) ==
    IF validation.error = "ValueError"
    THEN [ book |-> book, result |-> HaltedSchedulerResult(validation),
           steps |-> << "validate_freeze" >> ]
    ELSE LET entry_errors ==
                 IF dry_run THEN << >>
                 ELSE PendingErrors("Entry pending",
                          InsertionOrder(keys, get_pending_entries(book, run_date)))
             exit_errors ==
                 IF dry_run THEN << >>
                 ELSE PendingErrors("Exit pending",
                          InsertionOrder(keys, get_pending_exits(book, run_date)))
         IN  [ book |-> book,
               result |-> SchedulerResult(0, 0, entry_errors \o exit_errors),
               steps |-> << "validate_freeze", "pending_entries", "pending_exits" >> ]

\* DailyRunResult of the runner (run_id, run_date not represented)
RunnerResult(status, found, analyzed, trade, no_trade, filled, closed, errors) ==
    [ status           |-> status,
      events_found     |-> found,
      events_analyzed  |-> analyzed,
      trade_signals    |-> trade,
      no_trade_signals |-> no_trade,
      orders_created   |-> 0,
      entries_executed |-> filled,
      exits_executed   |-> closed,
      errors           |-> errors ]

\* what the outside world hands to one run: the events fetched, for each its
\* date and how its analysis and gating end, and the price lookups of the
\* entry pass
MaxEvents == 2
\* the signal of an event: {"error": str(e)} with a message or with an empty
\* one when an await raised, else the analysis the gate trades or does not
SignalKinds == { "error", "error_no_message", "trade", "no_trade" }
\* the signals the except branch of _analyze_events builds
ErrorKinds == { "error", "error_no_message" }

\* PaperTradingConfig.lookback_days
lookback_days == 1
\* get_events_in_range(lookback_start, run_date): the dates an event can bear
EventDays(run_date) == (run_date - lookback_days) .. run_date
FetchedEvents(run_date) ==
    UNION { [ 1 .. n -> EventDays(run_date) ] : n \in 0 .. MaxEvents }

\* what the entry pass finds when it runs: whether the market data client
\* can be had, and the close price of each order then due for entry
FillEnvs(book, run_date) ==
    [ client_available : BOOLEAN,
      lookups          : [ get_pending_entries(book, run_date) -> PriceLookups ] ]

\* a run that returns before the entry pass looks up no price
NoFillEnv == [ client_available |-> FALSE, lookups |-> << >> ]

\* the keyword arguments run_daily hands to validate_runtime (prompt_hash,
\* which it also passes, is the fourth argument of the call below)
RunnerRuntimeArgs(frozen) ==
    [ batch_score_model  |-> Some(frozen.model),
      full_audit_model   |-> None,
      prompt_version     |-> Some(frozen.prompt_version),
      score_threshold    |-> Some(frozen.score_threshold),
      evidence_min_count |-> Some(frozen.evidence_min_count) ]

\* the events of a run whose signal is of one kind
EventsWith(signals, kind) == { k \in DOMAIN signals : signals[k] = kind }

\* step 3 of run_daily: result.errors.append(f"{event_id}: {error}") for each
\* signal for which signal.get("error") is truthy, in event order; a signal
\* whose error message is empty goes on to the gate
SignalErrors(signals) ==
    LET failed == SelectSeq([ k \in DOMAIN signals |-> k ],
                            LAMBDA k : signals[k] = "error")
    IN  [ j \in DOMAIN failed |-> RunError("analysis failed", << failed[j] >>) ]

\* holding_days=30 of the module-level calculate_trading_dates
DefaultHoldingDays == 30

\* runner._open_position(signal): calculate_trading_dates(event_date) asks the
\* default calendar, which may replace its cache; then event_date= is handed
\* to OrderBook.open_position, which has no such parameter.  The TypeError (or
\* the calendar's ValueError) is caught and no position is opened.
_open_position(cal, exchange, event_date) ==
    [ calendar |-> calculate_trading_dates(cal, exchange, event_date,
                                           DefaultHoldingDays).calendar,
      position |-> None ]

\* the default calendar after step 3 has gone through the signals from the
\* k-th on: _open_position is called for each signal gated to trade
RECURSIVE ApplyGate(_, _, _, _, _)
ApplyGate(cal, exchange, signals, event_dates, k) ==
    IF k > Len(signals)
    THEN cal
    ELSE ApplyGate(IF signals[k] = "trade"
                   THEN _open_position(cal, exchange, event_dates[k]).calendar
                   ELSE cal,
                   exchange, signals, event_dates, k + 1)

\* step 4 of run_daily: result.entries_filled = entries_filled, the count
\* _fill_pending_entries returns; nothing is appended to result.errors
EntryPassErrors(entries_filled) == << >>

\* run_daily from the events _fetch_events handed back: the return on no
\* events, or steps 3 to 6 on the signals _analyze_events handed back, which
\* run without handing control back (what step 3 does to the default calendar
\* is ApplyGate).  A failed signal with an empty message is gated like an
\* analysis; the gate finds nothing to trade in it.
runner_pipeline(book, keys, run_date, signals, env) ==
    IF Len(signals) = 0
    THEN [ book |-> book,
           result |-> RunnerResult("completed_no_events", 0, 0, 0, 0, 0, 0, << >>),
           steps |-> << "is_trading_day", "validate_runtime", "fetch_events" >> ]
    ELSE LET errors == SignalErrors(signals)
             trade == Cardinality(EventsWith(signals, "trade"))
             no_trade == Cardinality(EventsWith(signals, "no_trade"))
                             + Cardinality(EventsWith(signals, "error_no_message"))
             fill == _fill_pending_entries(book, run_date, env.client_available,
                                           env.lookups)
             close == _close_due_positions(fill.book, keys, run_date)
         IN  [ book |-> close.book,
               result |-> RunnerResult("completed", Len(signals), Len(signals),
                                       trade, no_trade, fill.count, close.count,
                                       errors \o EntryPassErrors(fill.count)),
               steps |-> << "is_trading_day", "validate_runtime", "fetch_events",
                            "analyze_events", "apply_gate", "fill_pending_entries",
                            "close_due_positions", "log_summary" >> ]

\* PaperTradingRunner.run_daily up to its first await, given what
\* is_trading_day, analyzer.prompt_hash and validate_runtime answered: the
\* result it returns, or the result still "running" when it goes on to fetch
\* the events.  A ValueError of analyzer.prompt_hash is raised inside the try
\* of the freeze check, before validate_runtime is called.
runner_run_daily(book, run_date, trading_day, prompt_raised, validation) ==
    IF ~trading_day
    THEN [ book |-> book,
           result |-> RunnerResult("skipped_non_trading_day", 0, 0, 0, 0, 0, 0, << >>),
           steps |-> << "is_trading_day" >> ]
    ELSE IF prompt_raised # ""
    THEN [ book |-> book,
           result |-> RunnerResult("error_not_frozen", 0, 0, 0, 0, 0, 0,
                                   << ErrorOf(PromptFormatError) >>),
           steps |-> << "is_trading_day", "prompt_hash" >> ]
    ELSE IF validation.error = "ValueError"
    THEN [ book |-> book,
           result |-> RunnerResult("error_not_frozen", 0, 0, 0, 0, 0, 0,
                                   << ErrorOf(validation) >>),
           steps |-> << "is_trading_day", "validate_runtime" >> ]
    ELSE IF validation.error # ""
    THEN [ book |-> book,
           result |-> RunnerResult("error", 0, 0, 0, 0, 0, 0, << ErrorOf(validation) >>),
           steps |-> << "is_trading_day", "validate_runtime" >> ]
    ELSE [ book |-> book,
           result |-> RunnerResult("running", 0, 0, 0, 0, 0, 0, << >>),
           steps |-> << "is_trading_day", "validate_runtime" >> ]

\* a run_daily, or an _analyze_events called on its own, that has handed
\* control back to the event loop: at "fetch_events" it awaits the events; at
\* "get_transcript" and at "analyzer_run" it awaits the transcript and the
\* analysis of its event-th event, with the signals of the events before it
\* in hand
SuspendedRun(fn, run_date, validation, signals, event_dates, event, at) ==
    [ fn |-> fn, run_date |-> run_date, validation |-> validation, signals |-> signals,
      event_dates |-> event_dates, event |-> event, at |-> at ]

NoDailyStepPending == IsNone(dailyRun) /\ IsNone(runPending)

\* a finished step of a daily run and what it was given
DailyStep(fn, as_of_date, lookups, signals, validation, result, steps) ==
    [ fn |-> fn, as_of_date |-> as_of_date, lookups |-> lookups, signals |-> signals,
      validation |-> validation, result |-> result, steps |-> steps ]

\* runner._fill_pending_entries(as_of_date) on its own
FillPendingEntries ==
    /\ NoDailyStepPending
    /\ \E as_of_date \in Dates, client_available \in BOOLEAN :
       \E lookups \in [ get_pending_entries(orders, as_of_date) -> PriceLookups ] :
          LET fill == _fill_pending_entries(orders, as_of_date, client_available,
                                            lookups)
          IN  /\ orders' = fill.book
              /\ dailyRun' = Some(DailyStep("_fill_pending_entries", as_of_date,
                                            IF client_available THEN lookups ELSE << >>,
                                            << >>, None, fill.count, << >>))
    /\ UNCHANGED << orderKeys, gateVars, consistencyVars, freezeVars, calendarVars,
                    exitVars, runPending >>

\* runner._close_due_positions(as_of_date) on its own
RunnerCloseDuePositions ==
    /\ NoDailyStepPending
    /\ \E as_of_date \in Dates :
          LET close == _close_due_positions(orders, orderKeys, as_of_date)
          IN  /\ orders' = close.book
              /\ dailyRun' = Some(DailyStep("_close_due_positions", as_of_date, << >>,
                                            << >>, None, close.count, << >>))
    /\ UNCHANGED << orderKeys, gateVars, consistencyVars, freezeVars, calendarVars,
                    exitVars, runPending >>

\* order_book.close_due_positions(as_of_date), the call the method accepts
BookCloseDuePositions ==
    /\ NoDailyStepPending
    /\ \E as_of_date \in Dates :
          LET call == close_due_positions_call(orders, orderKeys, as_of_date, FALSE)
          IN  /\ call.closed # << >>
              /\ orders' = call.book
              /\ dailyRun' = Some(DailyStep("close_due_positions", as_of_date, << >>,
                                            << >>, None, Len(call.closed), << >>))
    /\ UNCHANGED << orderKeys, gateVars, consistencyVars, freezeVars, calendarVars,
                    exitVars, runPending >>

\* a signal becomes a PENDING order under the id uuid4 yields; open_position
\* does not look whether the id is in use, add_order stores over it
PlaceOrder ==
    /\ NoDailyStepPending
    /\ \E id \in OrderIds, en \in Dates, ex \in Dates :
          open_position(id, en, ex)

\* exit dates of the orders a daily run finds: the first day or the last
StoredExitDates == { 1, MaxDate }
\* order books a daily run can find in orders.json: each order absent,
\* PENDING, or entered at a looked-up price
StoredOrders ==
    { PaperOrder(PENDING, en, ex) : en \in Dates, ex \in StoredExitDates }
        \cup { EnteredOrder(PaperOrder(PENDING, en, ex), 100) :
                    en \in Dates, ex \in StoredExitDates }
StoredBooks ==
    UNION { [ ids -> StoredOrders ] : ids \in SUBSET OrderIds }
\* the orders in which orders.json can list the ids of a book
KeyOrders(ids) ==
    { keys \in [ 1 .. Cardinality(ids) -> ids ] :
        \A i, j \in DOMAIN keys : i # j => keys[i] # keys[j] }

\* configurations a DailyScheduler is constructed with: the frozen defaults,
\* or a raised score threshold
SchedulerConfigs ==
    { [ batch_score_model          |-> "gpt-4o-mini",
        full_audit_model           |-> "claude-3.5-sonnet",
        batch_score_prompt_version |-> "v1.0.0",
        score_threshold            |-> t,
        evidence_min_count         |-> 2 ] : t \in ScoreThresholds }

\* DailyScheduler(config).run_daily(run_date, dry_run)
SchedulerRunDaily ==
    /\ NoDailyStepPending
    /\ \E run_date \in Dates, dry_run \in BOOLEAN, config \in SchedulerConfigs :
          LET validation == validate_config(frozenPeriod, manifestFile, config)
              run == scheduler_run_daily(orders, orderKeys, run_date, dry_run, validation)
          IN  /\ orders' = run.book
              /\ dailyRun' = Some(DailyStep("DailyScheduler.run_daily", run_date, << >>,
                                            << >>, Some(validation), run.result, run.steps))
    /\ UNCHANGED << orderKeys, gateVars, consistencyVars, freezeVars, calendarVars,
                    exitVars, runPending >>

\* runner.run_daily(run_date) of a runner constructed for the call
\* (run_paper_trading_daily, the first day of run_paper_trading_backfill) or
\* of the runner in use (the later days of a backfill).  The constructor
\* fills the frozen config cache and starts an analyzer that holds no
\* template; is_trading_day fills the calendar cache; on a trading day
\* analyzer.prompt_hash is read and validate_runtime is called with
\* prompt_hash=...
RunnerRunDaily ==
    /\ NoDailyStepPending
    /\ IsNone(lastCall)
    /\ \E run_date \in Dates, new_runner \in BOOLEAN :
          LET frozen == get_frozen_config(frozenConfig, manifestFile)
              day == is_trading_day(calendar, exchangeDays, run_date)
              template == _get_prompt_template(AnalyzerPrompt(new_runner), promptCache,
                                               livePrompt)
              validation == IF template.raised # ""
                            THEN PromptFormatError
                            ELSE validate_runtime(frozenPeriod, frozen,
                                                  RunnerRuntimeArgs(frozen),
                                                  Some(template.prompt_hash))
              run == runner_run_daily(orders, run_date, day.outcome.value,
                                      template.raised, validation)
          IN  /\ new_runner \/ ~IsNone(frozenConfig)
              /\ frozenConfig' = Some(frozen)
              /\ promptCache' = IF day.outcome.value THEN template.cache ELSE promptCache
              /\ loadedPrompt' = IF day.outcome.value THEN template.loaded_prompt
                                 ELSE AnalyzerPrompt(new_runner)
              /\ calendar' = day.calendar
              /\ orders' = run.book
              \* past the freeze check the run goes on to await _fetch_events
              /\ IF run.result.status = "running"
                 THEN /\ runPending' = Some(SuspendedRun("PaperTradingRunner.run_daily",
                                                         run_date, Some(validation),
                                                         << >>, << >>, 0, "fetch_events"))
                      /\ dailyRun' = dailyRun
                 ELSE /\ runPending' = runPending
                      /\ dailyRun' =
                            Some(DailyStep("PaperTradingRunner.run_daily", run_date,
                                           << >>, << >>,
                                           IF day.outcome.value THEN Some(validation)
                                           ELSE None,
                                           run.result, run.steps))
    /\ UNCHANGED << orderKeys, manifestFile, frozenPeriod, lastCall, livePrompt,
                    promptAtFreeze, exchangeDays, calCall, gateVars, consistencyVars,
                    exitVars >>

\* runner._analyze_events(run_id, events) on its own, of a runner constructed
\* for the call or of the runner in use, up to its first await; with no
\* events it returns the empty list at once
AnalyzeEvents ==
    /\ NoDailyStepPending
    /\ \E run_date \in Dates, new_runner \in BOOLEAN :
       \E event_dates \in FetchedEvents(run_date) :
          /\ new_runner \/ ~IsNone(frozenConfig)
          /\ frozenConfig' = Some(get_frozen_config(frozenConfig, manifestFile))
          /\ loadedPrompt' = AnalyzerPrompt(new_runner)
          /\ IF Len(event_dates) = 0
             THEN /\ dailyRun' = Some(DailyStep("_analyze_events", run_date, << >>,
                                                << >>, None, << >>, << >>))
                  /\ runPending' = runPending
             ELSE /\ runPending' = Some(SuspendedRun("_analyze_events", run_date, None,
                                                     << >>, event_dates, 1,
                                                     "get_transcript"))
                  /\ dailyRun' = dailyRun
    /\ UNCHANGED << orderBookVars, gateVars, consistencyVars, manifestFile, frozenPeriod,
                    lastCall, livePrompt, promptAtFreeze, promptCache, calendarVars,
                    exitVars >>

\* the rest of a suspended run once nothing more is awaited: the return on
\* no events, or steps 3 to 6 over the book as it is now; the calendar is
\* left as step 3 leaves it
FinishRun(r, signals, event_dates, env) ==
    LET run == runner_pipeline(orders, orderKeys, r.run_date, signals, env)
    IN  /\ orders' = run.book
        /\ dailyRun' = Some(DailyStep(r.fn, r.run_date,
                                      IF env.client_available THEN env.lookups
                                      ELSE << >>,
                                      signals, r.validation, run.result, run.steps))
        /\ runPending' = None

\* the run stays suspended, now at another await
SuspendAt(r, signals, event_dates, event, at) ==
    /\ runPending' = Some(SuspendedRun(r.fn, r.run_date, r.validation, signals,
                                       event_dates, event, at))
    /\ UNCHANGED << orders, calendar, dailyRun >>

\* _fetch_events hands back the events (none when the client raised): the
\* run returns at once on no events, else _analyze_events awaits the
\* transcript of the first
FetchEventsReturns ==
    /\ ~IsNone(runPending)
    /\ runPending[1].at = "fetch_events"
    /\ LET r == runPending[1]
       IN  \E event_dates \in FetchedEvents(r.run_date) :
              IF Len(event_dates) = 0
              THEN /\ calendar' = calendar
                   /\ FinishRun(r, << >>, event_dates, NoFillEnv)
              ELSE SuspendAt(r, << >>, event_dates, 1, "get_transcript")
    /\ UNCHANGED << orderKeys, exchangeDays, calCall, gateVars, consistencyVars,
                    freezeVars, exitVars >>

\* an await of _analyze_events is answered.  get_transcript raises, with a
\* message or with an empty one (the event's signal is an error), or hands
\* back the transcript.  With the transcript the code goes on into
\* analyzer.run without handing control back: the pack builder or the router
\* may raise; then the prompt template is read (_render_prompt), which fills
\* _loaded_prompt and the registry cache or raises the registry's ValueError;
\* then the request is built, which may raise; then litellm.acompletion is
\* awaited, or, when litellm cannot be imported, the stub answer (score 0.0,
\* no trade candidate) is taken at once.  When the analyzer's await is
\* answered the analysis is one the gate will trade or not, or what follows
\* it (the artifact log) raises.  Whatever the outcome the loop goes on to
\* the next event.  After the last event _analyze_events returns the signals:
\* to its caller when it was called on its own, else to run_daily, which
\* goes through steps 3 to 6.
AnalyzeEventsResumes ==
    /\ ~IsNone(runPending)
    /\ runPending[1].at \in { "get_transcript", "analyzer_run" }
    /\ LET r == runPending[1]
           template == _get_prompt_template(loadedPrompt, promptCache, livePrompt)
           TemplateRead == /\ promptCache' = template.cache
                           /\ loadedPrompt' = template.loaded_prompt
           NextEvent(kind) ==
               LET signals == Append(r.signals, kind)
               IN  IF r.event < Len(r.event_dates)
                   THEN SuspendAt(r, signals, r.event_dates, r.event + 1,
                                  "get_transcript")
                   ELSE IF r.fn = "_analyze_events"
                   THEN /\ dailyRun' = Some(DailyStep(r.fn, r.run_date, << >>, signals,
                                                      None, signals, << >>))
                        /\ runPending' = None
                        /\ UNCHANGED << orders, calendar >>
                   ELSE /\ calendar' = ApplyGate(calendar, exchangeDays, signals,
                                                 r.event_dates, 1)
                        /\ \E env \in FillEnvs(orders, r.run_date) :
                              FinishRun(r, signals, r.event_dates, env)
           AwaitAnalyzer == SuspendAt(r, r.signals, r.event_dates, r.event, "analyzer_run")
       IN  IF r.at = "analyzer_run"
           THEN /\ UNCHANGED promptVars
                /\ \E kind \in SignalKinds : NextEvent(kind)
           ELSE \/ /\ UNCHANGED promptVars
                   /\ \E kind \in ErrorKinds : NextEvent(kind)
                \/ /\ template.raised # ""
                   /\ UNCHANGED promptVars
                   /\ NextEvent("error")
                \/ /\ template.raised = ""
                   /\ TemplateRead
                   /\ \/ \E kind \in ErrorKinds \cup { "no_trade" } : NextEvent(kind)
                      \/ AwaitAnalyzer
    /\ UNCHANGED << orderKeys, exchangeDays, calCall, gateVars, consistencyVars,
                    manifestFile, frozenPeriod, frozenConfig, lastCall, livePrompt,
                    promptAtFreeze, exitVars >>

\* while a run is suspended another task of the event loop works on the same
\* order book: it opens a position
OtherTaskChangesBook ==
    /\ ~IsNone(runPending)
    /\ OpenPosition

\* the caller takes the result and goes on
DailyReturn ==
    /\ ~IsNone(dailyRun)
    /\ dailyRun' = None
    /\ UNCHANGED << orderBookVars, gateVars, consistencyVars, freezeVars, calendarVars,
                    exitVars, runPending >>

(***************************************************************************)
(* Position tracker of the daily signal script (check_exits)               *)
(***************************************************************************)

\* FROZEN_CONFIG take_profit and stop_loss, in percent
take_profit == 10
stop_loss == 10

Symbols == { "AAA", "BBB" }
\* entry prices (price_t1) in dollars; all are positive
EntryPrices == { 100 }
\* check dates and max-hold dates as day numbers (ISO date strings compare
\* the same way)
MaxCheckDate == 3
CheckDates == 1 .. MaxCheckDate
\* what price_getter(symbol) returns: None or a close price (the stop-loss
\* price, the entry price, the take-profit price)
CurrentPrices == { 90, 100, 110 }
\* max-hold dates: the first day, or the last one checked
MaxHoldDates == { 1, MaxCheckDate }
MaxOpenPositions == 2

\* the position add_position builds (sector, weight, prob not represented);
\* round(entry_price * (1 +- 0.10), 2) is exact for these entry prices
Position(symbol, entry_date, entry_price, max_hold_date) ==
    [ symbol            |-> symbol,
      entry_date        |-> entry_date,
      entry_price       |-> entry_price,
      take_profit_price |-> (entry_price * (100 + take_profit)) \div 100,
      stop_loss_price   |-> (entry_price * (100 - stop_loss)) \div 100,
      max_hold_date     |-> max_hold_date ]

OpenPositions ==
    { Position(s, 1, p, m) : s \in Symbols, p \in EntryPrices, m \in MaxHoldDates }

\* price_getter(symbol) is called for the symbols of the open positions
SymbolsOf(open) == { open[i].symbol : i \in DOMAIN open }
PriceGetters(open) == [ SymbolsOf(open) -> Opt(CurrentPrices) ]

\* mutant: the max-hold date is looked at before the prices
Mut_ExitReason(pos, current_price, check_date) ==
    IF check_date >= pos.max_hold_date THEN "max_hold"
    ELSE IF current_price >= pos.take_profit_price THEN "take_profit"
    ELSE IF current_price <= pos.stop_loss_price THEN "stop_loss"
    ELSE ""

\* the if / elif / elif chain; "" is exit_reason = None
ExitReason(pos, current_price, check_date) ==
    IF current_price >= pos.take_profit_price THEN "take_profit"
    ELSE IF current_price <= pos.stop_loss_price THEN "stop_loss"
    ELSE IF check_date >= pos.max_hold_date THEN "max_hold"
    ELSE ""

\* the closed record: round(ret * 100, 2) is exact for these prices
ClosedPosition(pos, check_date, current_price, exit_reason) ==
    [ symbol            |-> pos.symbol,
      entry_date        |-> pos.entry_date,
      entry_price       |-> pos.entry_price,
      take_profit_price |-> pos.take_profit_price,
      stop_loss_price   |-> pos.stop_loss_price,
      max_hold_date     |-> pos.max_hold_date,
      exit_date         |-> check_date,
      exit_price        |-> current_price,
      exit_reason       |-> exit_reason,
      return_pct        |-> ((current_price - pos.entry_price) * 100) \div pos.entry_price,
      hold_days_approx  |-> check_date - pos.entry_date ]

\* the for loop of check_exits over positions["open"][i ..]: exits and
\* still_open so far are carried along
RECURSIVE ExitLoop(_, _, _, _, _, _)
ExitLoop(open, i, check_date, price_getter, exits, still_open) ==
    IF i > Len(open)
    THEN [ exits |-> exits, still_open |-> still_open ]
    ELSE LET pos == open[i]
             current_price == price_getter[pos.symbol]
         IN  IF IsNone(current_price)
             THEN ExitLoop(open, i + 1, check_date, price_getter, exits,
                           Append(still_open, pos))
             ELSE LET exit_reason == ExitReason(pos, current_price[1], check_date)
                  IN  IF exit_reason # ""
                      THEN ExitLoop(open, i + 1, check_date, price_getter,
                                    Append(exits, ClosedPosition(pos, check_date,
                                                                 current_price[1],
                                                                 exit_reason)),
                                    still_open)
                      ELSE ExitLoop(open, i + 1, check_date, price_getter, exits,
                                    Append(still_open, pos))

\* check_exits(positions, check_date, price_getter): the positions dict it
\* leaves and the exits it returns
check_exits(pos_file, check_date, price_getter) ==
    LET loop == ExitLoop(pos_file.open, 1, check_date, price_getter, << >>, << >>)
    IN  [ positions |-> [ open |-> loop.still_open,
                          closed |-> pos_file.closed \o loop.exits ],
          exits |-> loop.exits ]

\* load_positions, add_position(positions, signal, trading_dates) for a BUY
\* signal and save_positions, as the daily run and the backfill do: the
\* position is appended to positions["open"] of the file.  The tracker is
\* followed while it holds at most MaxOpenPositions positions.
AddPosition ==
    /\ IsNone(exitCheck)
    /\ Len(positions.open) + Len(positions.closed) < MaxOpenPositions
    /\ \E pos \in OpenPositions :
          positions' = [ positions EXCEPT !.open = Append(@, pos) ]
    /\ UNCHANGED << exitCheck, orderBookVars, gateVars, consistencyVars, freezeVars,
                    calendarVars, dailyVars >>

\* the BUY signals of the signal files main --init-positions goes through
BuySignalLists == UNION { [ 1 .. n -> OpenPositions ] : n \in 0 .. MaxOpenPositions }

\* main --init-positions: positions = {"open": [], "closed": []} without
\* loading the file, add_position for each BUY signal of the signal files,
\* save_positions.  What open_positions.json held is discarded.
InitPositions ==
    /\ IsNone(exitCheck)
    /\ \E buys \in BuySignalLists :
          positions' = [ open |-> buys, closed |-> << >> ]
    /\ UNCHANGED << exitCheck, orderBookVars, gateVars, consistencyVars, freezeVars,
                    calendarVars, dailyVars >>

\* main --check-exits: load_positions, check_exits, save_positions
CheckExits ==
    /\ IsNone(exitCheck)
    /\ \E check_date \in CheckDates :
       \E price_getter \in PriceGetters(positions.open) :
          LET check == check_exits(positions, check_date, price_getter)
          IN  /\ positions' = check.positions
              /\ exitCheck' = Some([ before |-> positions,
                                     check_date |-> check_date,
                                     price_getter |-> price_getter,
                                     exits |-> check.exits ])
    /\ UNCHANGED << orderBookVars, gateVars, consistencyVars, freezeVars, calendarVars,
                    dailyVars >>

\* the caller takes the exits and goes on
ExitReturn ==
    /\ ~IsNone(exitCheck)
    /\ exitCheck' = None
    /\ UNCHANGED << positions, orderBookVars, gateVars, consistencyVars, freezeVars,
                    calendarVars, dailyVars >>

(***************************************************************************)
(* Initial state and specifications                                        *)
(***************************************************************************)

OrderBookIdle == orders = << >> /\ orderKeys = << >>
GateIdle == gateInput = None /\ gate = None /\ gateResult = None
ConsistencyIdle ==
    ccInput = None /\ ccResult = None /\ mraFinal = None /\ mraRuns = None
FreezeIdle ==
    /\ manifestFile = None
    /\ frozenPeriod = FALSE
    /\ frozenConfig = None
    /\ lastCall = None
    /\ livePrompt = None
    /\ promptAtFreeze = None
    /\ promptCache = None
    /\ loadedPrompt = None

CalendarIdle == exchangeDays = Weekdays /\ calendar = NewCalendar /\ calCall = None
DailyIdle == dailyRun = None /\ runPending = None
ExitIdle == positions = [ open |-> << >>, closed |-> << >> ] /\ exitCheck = None

Init ==
    /\ OrderBookIdle /\ GateIdle /\ ConsistencyIdle /\ FreezeIdle
    /\ CalendarIdle /\ DailyIdle /\ ExitIdle

\* a gate constructed from drawn arguments, about to evaluate a drawn input
InitGate ==
    /\ \E in \in GateInputs :
          /\ gateInput = Some(in)
          /\ gate = Some(DeterministicGate(in.score_threshold, in.evidence_min_count,
                                           in.block_on_margin_concern))
    /\ gateResult = None
    /\ OrderBookIdle /\ ConsistencyIdle /\ FreezeIdle
    /\ CalendarIdle /\ DailyIdle /\ ExitIdle

GateNext == Evaluate

SpecGate == InitGate /\ [][GateNext]_vars

\* a checker and the run results of one event
InitConsistency ==
    /\ \E in \in ConsistencyInputs : ccInput = Some(in)
    /\ ccResult = None
    /\ mraFinal = None
    /\ mraRuns = None
    /\ OrderBookIdle /\ GateIdle /\ FreezeIdle
    /\ CalendarIdle /\ DailyIdle /\ ExitIdle

ConsistencyNext ==
    \/ CheckEvent
    \/ AnalyzeWithConsistency
    \/ AnalysisFnReturns
    \/ SetMinAgreement

SpecConsistency == InitConsistency /\ [][ConsistencyNext]_vars

\* manifests created from every combination of argument values
ManifestNext ==
    \/ CreateManifest
    \/ CreateManifestWithPromptHash
    \/ ReturnToCaller

SpecManifest == Init /\ [][ManifestNext]_vars

\* the default policy of one process: freeze, pass the boundary, validate
FreezeNext ==
    \/ Freeze
    \/ PassFreezeBoundary
    \/ ValidateConfig
    \/ ValidateRuntime
    \/ GetFrozenConfig
    \/ EditPrompt
    \/ DeleteManifest
    \/ ReturnToCaller

SpecFreeze == Init /\ [][FreezeNext]_vars

OrderBookNext ==
    \/ MarkEntered
    \/ MarkExited
    \/ CancelOrder
    \/ CloseDuePositions
    \/ OpenPosition
    \/ AddOrder

SpecOrderBook == Init /\ [][OrderBookNext]_vars

\* the life of orders through open_position, mark_entered and mark_exited
OrderLifeNext ==
    \/ OpenPosition
    \/ MarkEntered
    \/ MarkExited

SpecOrderLife == Init /\ [][OrderLifeNext]_vars

\* one calendar over the schedule of one exchange
InitCalendar ==
    /\ exchangeDays \in ExchangeCalendars
    /\ calendar = NewCalendar
    /\ calCall = None
    /\ OrderBookIdle /\ GateIdle /\ ConsistencyIdle /\ FreezeIdle /\ DailyIdle /\ ExitIdle

CalendarNext ==
    \/ IsTradingDay
    \/ NextTradingDay
    \/ AddTradingDays
    \/ CountTradingDays
    \/ CalculateTradingDates
    \/ CalendarReturn

SpecCalendar == InitCalendar /\ [][CalendarNext]_vars

\* the life of orders as the daily run drives it
LifecycleNext ==
    \/ PlaceOrder
    \/ FillPendingEntries
    \/ BookCloseDuePositions
    \/ RunnerCloseDuePositions
    \/ DailyReturn

SpecLifecycle == Init /\ [][LifecycleNext]_vars

\* the prompt file a daily run can find: none (the fallback prompts are
\* used), or one that does not parse
DeployedPrompts == Opt({ UnparsablePrompt })

\* a daily run finds an order book on disk; day 2 is a market holiday
InitDailyRun ==
    /\ orders \in StoredBooks
    /\ orderKeys \in KeyOrders(DOMAIN orders)
    /\ exchangeDays = Weekdays \ { 2 }
    /\ calendar = NewCalendar
    /\ calCall = None
    /\ manifestFile = None
    /\ frozenPeriod = FALSE
    /\ frozenConfig = None
    /\ lastCall = None
    /\ livePrompt \in DeployedPrompts
    /\ promptAtFreeze = None
    /\ promptCache = None
    /\ loadedPrompt = None
    /\ GateIdle /\ ConsistencyIdle /\ DailyIdle /\ ExitIdle

DailyRunNext ==
    \/ Freeze
    \/ PassFreezeBoundary
    \/ SchedulerRunDaily
    \/ RunnerRunDaily
    \/ DailyReturn

SpecDailyRun == InitDailyRun /\ [][DailyRunNext]_vars

\* the passes of a daily run, each called on its own
PassesNext ==
    \/ PlaceOrder
    \/ EditPrompt
    \/ AnalyzeEvents
    \/ AnalyzeEventsResumes
    \/ OtherTaskChangesBook
    \/ FillPendingEntries
    \/ DailyReturn

SpecPasses == Init /\ [][PassesNext]_vars

\* run_daily past its freeze check
RunStepsNext ==
    \/ FetchEventsReturns
    \/ AnalyzeEventsResumes
    \/ OtherTaskChangesBook

\* the position tracker of the signal script before open_positions.json exists
InitExits ==
    /\ positions = [ open |-> << >>, closed |-> << >> ]
    /\ exitCheck = None
    /\ OrderBookIdle /\ GateIdle /\ ConsistencyIdle /\ FreezeIdle /\ CalendarIdle
    /\ DailyIdle

ExitsNext == AddPosition \/ InitPositions \/ CheckExits \/ ExitReturn

SpecExits == InitExits /\ [][ExitsNext]_vars

\* all components side by side; the claims are checked component by component
Next ==
    \/ OrderBookNext \/ GateNext \/ ConsistencyNext \/ ManifestNext \/ FreezeNext
    \/ CalendarNext \/ LifecycleNext \/ DailyRunNext \/ PassesNext \/ RunStepsNext \/ ExitsNext

Spec == Init /\ [][Next]_vars


(***************************************************************************)
(* Order-book properties                                                   *)
(***************************************************************************)

LegalStatusChanges ==
    { << PENDING, OPEN >>, << PENDING, CANCELLED >>, << OPEN, CLOSED >> }

\* C1: in every step of the order book, an order that is in the book before
\* and after the step either keeps its status or changes it along
\* PENDING->OPEN, PENDING->CANCELLED or OPEN->CLOSED (so CLOSED and CANCELLED
\* are terminal and OPEN never reverts to PENDING).
C1_OnlyLegalStatusChanges ==
    [][ \A id \in (DOMAIN orders) \cap (DOMAIN orders') :
            orders'[id].status # orders[id].status
                => << orders[id].status, orders'[id].status >> \in LegalStatusChanges
      ]_vars

(***************************************************************************)
(* Gate properties                                                         *)
(***************************************************************************)

GateDone == ~IsNone(gateResult)
GateIn == gateInput[1]
GateOut == gateResult[1]

\* C2: every GateResult has trade_long = TRUE exactly when block_reasons is
\* empty, whatever the analysis output (null included), data_complete and
\* gate configuration.
C2_TradeIffNoBlockReasons ==
    GateDone => (GateOut.trade_long <=> GateOut.block_reasons = << >>)

C2_Witness ==
    /\ GateDone
    /\ GateOut.trade_long
    /\ GateOut.block_reasons = << >>
    /\ Len(GateOut.passed_checks) = 6

\* C3: a valid analysis output with trade_candidate = FALSE is never traded:
\* the result has trade_long = FALSE and LLM_DECLINED among its block reasons.
C3_LlmNoIsNeverTraded ==
    (GateDone /\ ~IsNone(GateIn.llm_output) /\ ~GateIn.llm_output[1].trade_candidate)
        => /\ ~GateOut.trade_long
           /\ LLM_DECLINED \in Range(GateOut.block_reasons)

\* every other check passes and the LLM alone said no
C3_Witness ==
    /\ GateDone
    /\ ~IsNone(GateIn.llm_output)
    /\ ~GateIn.llm_output[1].trade_candidate
    /\ GateOut.block_reasons = << LLM_DECLINED >>
    /\ ~GateOut.trade_long

\* C4: a null analysis output gives trade_long = FALSE, block_reasons exactly
\* [SCHEMA_INVALID], no passed checks and confidence 0, for either value of
\* data_complete.
C4_NullOutputIsSchemaInvalid ==
    (GateDone /\ IsNone(GateIn.llm_output))
        => /\ ~GateOut.trade_long
           /\ GateOut.block_reasons = << SCHEMA_INVALID >>
           /\ GateOut.passed_checks = << >>
           /\ GateOut.confidence = 0

C4_Witness ==
    /\ GateDone
    /\ IsNone(GateIn.llm_output)
    /\ ~GateIn.data_complete
    /\ GateOut.block_reasons = << SCHEMA_INVALID >>

(***************************************************************************)
(* Consistency properties                                                  *)
(***************************************************************************)

CcIn == ccInput[1]
CcOut == ccResult[1]
CcChecked == ~IsNone(ccResult) /\ CcOut.ok
InDecisions == [ i \in DOMAIN CcIn.run_results |-> Decision(CcIn.run_results[i]) ]
InScores == [ i \in DOMAIN CcIn.run_results |-> Score(CcIn.run_results[i]) ]

\* C5: for a list of exactly K results, the majority decision is a most
\* frequent decision, agreement_rate = (runs equal to it) / K, is_consistent
\* iff agreement_rate >= min_agreement, and the recommendation is ABSTAIN iff
\* not consistent, TRADE iff consistent with majority true, NO_TRADE iff
\* consistent with majority false; K identical decisions are consistent with
\* rate 1, and a 3-of-5 split under 0.8 abstains.
C5_ConsistencyResult ==
    CcChecked =>
        LET k == CcIn.k
            t == Count(InDecisions, TRUE)
            f == Count(InDecisions, FALSE)
            m == IF CcOut.majority_decision THEN t ELSE f
        IN  /\ Len(CcIn.run_results) = k
            /\ m >= t /\ m >= f
            /\ CcOut.agreement_rate = << m, k >>
            /\ CcOut.is_consistent <=> (100 * m >= CcIn.min_agreement * k)
            /\ (CcOut.recommendation = "ABSTAIN") <=> ~CcOut.is_consistent
            /\ (CcOut.recommendation = "TRADE")
                   <=> (CcOut.is_consistent /\ CcOut.majority_decision)
            /\ (CcOut.recommendation = "NO_TRADE")
                   <=> (CcOut.is_consistent /\ ~CcOut.majority_decision)
            /\ (t = k \/ f = k)
                   => (CcOut.is_consistent /\ CcOut.agreement_rate = << k, k >>)
            /\ (k = 5 /\ CcIn.min_agreement = 80 /\ (t = 3 \/ f = 3))
                   => CcOut.recommendation = "ABSTAIN"

\* three "trade" runs against two "no trade" runs under the default 0.8
C5_Witness ==
    /\ CcChecked
    /\ CcIn.k = 5
    /\ CcIn.min_agreement = 80
    /\ Count(InDecisions, TRUE) = 3
    /\ CcOut.majority_decision
    /\ CcOut.recommendation = "ABSTAIN"

MraDone == ~IsNone(mraFinal) /\ mraFinal[1].ok
MraOut == mraFinal[1]

\* C6: when the consistency check abstains, the returned result is the
\* synthesized one: trade_long and trade_candidate are false, the score is
\* the mean of the K scores, and the reason carries the agreement rate as a
\* whole percentage.
C6_AbstainIsConservative ==
    (MraDone /\ MraOut.consistency_check.recommendation = "ABSTAIN") =>
        LET k == CcIn.k
            rate == MraOut.consistency_check.agreement_rate
        IN  /\ MraOut.trade_long = Some(FALSE)
            /\ MraOut.trade_candidate = Some(FALSE)
            /\ ~IsNone(MraOut.score)
            /\ MraOut.score[1][1] * k = Sum(InScores) * MraOut.score[1][2]
            /\ ~IsNone(MraOut.no_trade_reason)
            /\ LET pct == MraOut.no_trade_reason[1].agreement
               IN  /\ 2 * (100 * rate[1] - pct * rate[2]) <= rate[2]
                   /\ 2 * (pct * rate[2] - 100 * rate[1]) <= rate[2]

\* every run carries trade_candidate = true, yet the event abstains
C6_Witness ==
    /\ MraDone
    /\ CcIn.k = 5
    /\ \A i \in DOMAIN CcIn.run_results :
           CcIn.run_results[i].trade_candidate = Some(TRUE)
    /\ MraOut.consistency_check.recommendation = "ABSTAIN"
    /\ MraOut.trade_long = Some(FALSE)
    /\ MraOut.no_trade_reason[1].agreement = 60

(***************************************************************************)
(* Freeze-policy properties                                                *)
(***************************************************************************)

\* the manifest fields the hash is claimed to cover (FreezeManifest has no
\* prompt content hash field)
ManifestFields ==
    { "git_commit", "batch_score_model", "full_audit_model",
      "batch_score_prompt_version", "full_audit_prompt_version", "score_threshold",
      "evidence_min_count", "block_on_margin_concern", "universe_filter",
      "freeze_boundary" }

DifferingFields(m1, m2) == { f \in ManifestFields : m1[f] # m2[f] }

\* C7: a manifest and the manifest created next have the same manifest_hash
\* when all their field values are equal, and different hashes when exactly
\* one field (git commit, a model, a prompt version, score threshold,
\* evidence minimum, margin switch, universe filter, freeze boundary) differs.
C7_HashTellsManifestsApart ==
    [][ (~IsNone(manifestFile) /\ ~IsNone(manifestFile')) =>
           LET d == DifferingFields(manifestFile[1], manifestFile'[1])
           IN  /\ d = { } =>
                     manifestFile'[1].manifest_hash = manifestFile[1].manifest_hash
               /\ Cardinality(d) = 1 =>
                     manifestFile'[1].manifest_hash # manifestFile[1].manifest_hash
      ]_vars

CallIs(fn) == ~IsNone(lastCall) /\ lastCall[1].fn = fn
Outcome == lastCall[1].outcome
NamedFields == { Outcome.mismatches[i].field : i \in DOMAIN Outcome.mismatches }
Manifest == manifestFile[1]

\* tracked parameters of a validate_config call that differ from the manifest
ConfigDiff ==
    LET c == lastCall[1].args
    IN  { n \in { "batch_score_model", "full_audit_model", "prompt_version",
                  "score_threshold", "evidence_min_count" } :
            \/ n = "batch_score_model" /\ c.batch_score_model # Manifest.batch_score_model
            \/ n = "full_audit_model" /\ c.full_audit_model # Manifest.full_audit_model
            \/ n = "prompt_version"
                 /\ c.batch_score_prompt_version # Manifest.batch_score_prompt_version
            \/ n = "score_threshold" /\ c.score_threshold # Manifest.score_threshold
            \/ n = "evidence_min_count"
                 /\ c.evidence_min_count # Manifest.evidence_min_count }

\* C8: in the frozen period with a manifest present, validate_config returns
\* True when all five tracked parameters equal the manifest's, and when
\* exactly one differs it raises ValueError naming exactly that parameter.
C8_ValidateConfigOneMismatch ==
    (CallIs("validate_config") /\ frozenPeriod /\ ~IsNone(manifestFile)) =>
        /\ ConfigDiff = { } => Outcome = Returned(TRUE)
        /\ Cardinality(ConfigDiff) = 1 =>
              /\ Outcome.error = "ValueError"
              /\ NamedFields = ConfigDiff

\* manifest frozen at 0.70, validate_config called with 0.75
C8_Witness ==
    /\ CallIs("validate_config")
    /\ frozenPeriod
    /\ ~IsNone(manifestFile)
    /\ Manifest.score_threshold = 70
    /\ lastCall[1].args.score_threshold = 75
    /\ ConfigDiff = { "score_threshold" }
    /\ Outcome.error = "ValueError"
    /\ NamedFields = { "score_threshold" }

\* supplied parameters of a validate_runtime call that differ from the manifest
RuntimeDiff ==
    LET r == lastCall[1].args.r
    IN  { n \in { "batch_score_model", "full_audit_model", "prompt_version",
                  "score_threshold", "evidence_min_count" } :
            \/ n = "batch_score_model" /\ ~IsNone(r.batch_score_model)
                 /\ r.batch_score_model[1] # Manifest.batch_score_model
            \/ n = "full_audit_model" /\ ~IsNone(r.full_audit_model)
                 /\ r.full_audit_model[1] # Manifest.full_audit_model
            \/ n = "prompt_version" /\ ~IsNone(r.prompt_version)
                 /\ r.prompt_version[1] # Manifest.batch_score_prompt_version
            \/ n = "score_threshold" /\ ~IsNone(r.score_threshold)
                 /\ r.score_threshold[1] # Manifest.score_threshold
            \/ n = "evidence_min_count" /\ ~IsNone(r.evidence_min_count)
                 /\ r.evidence_min_count[1] # Manifest.evidence_min_count }

\* a validate_runtime call was handed an empty string for a model or for the
\* prompt version (the code takes it for an omitted argument)
EmptyStringSupplied ==
    LET r == lastCall[1].args.r
    IN  r.batch_score_model = Some("") \/ r.prompt_version = Some("")

\* C9: in the frozen period with a manifest present, a validation call
\* (validate_config, or validate_runtime called with its own parameters, none
\* of them an empty string) in which several parameters differ from the
\* manifest raises one ValueError that names exactly the parameters that
\* differ.
C9_AllMismatchesListed ==
    /\ (CallIs("validate_config") /\ frozenPeriod /\ ~IsNone(manifestFile)
          /\ Cardinality(ConfigDiff) >= 2)
        => (Outcome.error = "ValueError" /\ NamedFields = ConfigDiff)
    /\ (CallIs("validate_runtime") /\ frozenPeriod /\ ~IsNone(manifestFile)
          /\ IsNone(lastCall[1].args.prompt_hash)
          /\ ~EmptyStringSupplied
          /\ Cardinality(RuntimeDiff) >= 2)
        => (Outcome.error = "ValueError" /\ NamedFields = RuntimeDiff)

\* C10: in the frozen period with a manifest present, a runtime validation
\* whose models, prompt version and thresholds all equal the manifest's
\* passes exactly when the live prompt's content hash is the one the prompt
\* had when the manifest was created.
C10_PromptContentIsFrozen ==
    (CallIs("validate_runtime") /\ frozenPeriod /\ ~IsNone(manifestFile)
       /\ RuntimeDiff = { })
        => (Outcome = Returned(TRUE) <=> livePrompt = promptAtFreeze[1])

\* C11: while the manifest file exists, no freeze-policy operation changes
\* its contents: a second create_manifest or freeze with other values leaves
\* the frozen values as they were (they change only after the file has been
\* deleted).
C11_ManifestIsAppendOnly ==
    [][ (~IsNone(manifestFile) /\ ~IsNone(manifestFile'))
            => manifestFile' = manifestFile
      ]_vars

(***************************************************************************)
(* Trading-calendar properties                                             *)
(***************************************************************************)

CalIs(fn) == ~IsNone(calCall) /\ calCall[1].fn = fn
CalArgs == calCall[1].args
CalOut == calCall[1].outcome

LaterTradingDays(d) == { x \in exchangeDays : x > d }
IsNextTradingDay(d, r) ==
    /\ r \in exchangeDays
    /\ r > d
    /\ \A x \in (d + 1) .. (r - 1) : x \notin exchangeDays
HasTradingDayInWindow(d) ==
    \E x \in (d + 1) .. (d + LookaheadDays) : x \in exchangeDays
TradingDaysIn(start, end) ==
    Cardinality({ x \in exchangeDays : start < x /\ x <= end })

\* C12: whenever next_trading_day(d) returns, and it returns whenever a
\* trading day lies within the 30 days after d, the result is the smallest
\* trading day strictly after d; calculate_trading_dates reports that same
\* day as entry_date.
C12_NextTradingDayIsSmallestLater ==
    /\ CalIs("next_trading_day") =>
          /\ CalOut.ok => IsNextTradingDay(CalArgs.d, CalOut.value)
          /\ HasTradingDayInWindow(CalArgs.d) => CalOut.ok
    /\ (CalIs("calculate_trading_dates") /\ CalOut.ok) =>
          IsNextTradingDay(CalArgs.event_date, CalOut.value.entry_date)

\* from a Friday over the weekend and a Monday holiday to Tuesday
C12_Witness ==
    /\ CalIs("next_trading_day")
    /\ CalArgs.d = 4
    /\ 7 \notin exchangeDays
    /\ CalOut.ok
    /\ CalOut.value = 8

\* C13: next_trading_day(d) either returns a trading day in d+1 .. d+30 or
\* fails with ValueError, and it fails only when no day of d+1 .. d+30 is a
\* trading day; it never returns a date beyond the window.
C13_NextTradingDayStaysInWindow ==
    CalIs("next_trading_day") =>
        IF CalOut.ok
        THEN /\ CalOut.value \in exchangeDays
             /\ CalArgs.d < CalOut.value
             /\ CalOut.value <= CalArgs.d + LookaheadDays
        ELSE /\ CalOut.error = "ValueError"
             /\ ~HasTradingDayInWindow(CalArgs.d)

\* the exchange reopens on day d+31: the call fails rather than return it
C13_Witness ==
    /\ CalIs("next_trading_day")
    /\ CalArgs.d = 1
    /\ (CalArgs.d + LookaheadDays + 1) \in exchangeDays
    /\ ~CalOut.ok
    /\ CalOut.error = "ValueError"

\* C14: when add_trading_days(d, n) returns, n > 0 and the result is the
\* n-th trading day strictly after d, so count_trading_days(d, result) = n;
\* for n <= 0, and when fewer than n later trading days are in the cache, it
\* raises ValueError.
C14_AddTradingDaysCountsBack ==
    CalIs("add_trading_days") =>
        LET d == CalArgs.d
            n == CalArgs.n
            known == { td \in calendar._trading_days_cache : td > d }
        IN  /\ CalOut.ok =>
                 /\ n > 0
                 /\ CalOut.value \in exchangeDays
                 /\ CalOut.value > d
                 /\ TradingDaysIn(d, CalOut.value) = n
                 /\ count_trading_days(calendar, exchangeDays, d,
                                       CalOut.value).outcome.value = n
            /\ n <= 0 => (~CalOut.ok /\ CalOut.error = "ValueError")
            /\ (n > 0 /\ Cardinality(known) < n) =>
                 (~CalOut.ok /\ CalOut.error = "ValueError")

\* three trading days on from a Thursday, over the weekend, is Tuesday
C14_Witness ==
    /\ CalIs("add_trading_days")
    /\ CalArgs.d = 3
    /\ CalArgs.n = 3
    /\ exchangeDays = Weekdays
    /\ CalOut.ok
    /\ CalOut.value = 8

\* the entry day of an event date that has one within the window
EntryOf(t) == CHOOSE r \in exchangeDays : IsNextTradingDay(t, r)

\* what is claimed of a returned calculate_trading_dates result
HoldDatesAsClaimed ==
    /\ CalOut.ok
    /\ CalArgs.event_date < CalOut.value.entry_date
    /\ CalOut.value.entry_date < CalOut.value.exit_date
    /\ CalOut.value.exit_date \in exchangeDays
    /\ TradingDaysIn(CalOut.value.entry_date, CalOut.value.exit_date)
           = CalArgs.holding_days - 1
    /\ CalOut.value.trading_days_between = CalArgs.holding_days - 1

\* the calendar knows an entry day and holding_days - 1 trading days after it
HoldDatesKnown ==
    /\ HasTradingDayInWindow(CalArgs.event_date)
    /\ Cardinality(LaterTradingDays(EntryOf(CalArgs.event_date)))
           >= CalArgs.holding_days - 1

\* C15 as stated: for every event date and every holding_days >= 1 (the
\* calendar knowing the days needed), calculate_trading_dates returns
\* t_day < entry_date < exit_date with exit_date the (holding_days-1)-th
\* trading day after entry_date.
C15_HoldDatesFromOneDay ==
    (CalIs("calculate_trading_dates") /\ CalArgs.holding_days >= 1 /\ HoldDatesKnown)
        => HoldDatesAsClaimed

\* C15 amended: the same for every holding_days >= 2; for holding_days = 1
\* (no further trading day to add) the call raises ValueError and returns
\* no dates.
C15_HoldDatesFromTwoDays ==
    /\ (CalIs("calculate_trading_dates") /\ CalArgs.holding_days >= 2 /\ HoldDatesKnown)
          => HoldDatesAsClaimed
    /\ (CalIs("calculate_trading_dates") /\ CalArgs.holding_days = 1)
          => (~CalOut.ok /\ CalOut.error = "ValueError")

\* the default hold of 30 from a Monday event: 29 trading days after entry
C15_Witness ==
    /\ CalIs("calculate_trading_dates")
    /\ CalArgs.event_date = 0
    /\ CalArgs.holding_days = 30
    /\ exchangeDays = Weekdays
    /\ CalOut.ok
    /\ CalOut.value.entry_date = 1
    /\ CalOut.value.exit_date = 42
    /\ CalOut.value.trading_days_between = 29

(***************************************************************************)
(* Daily-run properties                                                    *)
(***************************************************************************)

RunIs(fn) == ~IsNone(dailyRun) /\ dailyRun[1].fn = fn
\* a step that has just finished in this transition
StepDone(fn) == IsNone(dailyRun) /\ ~IsNone(dailyRun') /\ dailyRun'[1].fn = fn

\* C16: an order goes from PENDING to OPEN only in an entry-fill pass of its
\* entry date in which the price lookup for it returned a price, and that
\* price becomes its entry_price; an order whose lookup returned None or
\* raised is left as it was, PENDING with no entry_price.
C16_EntryNeedsLookedUpPrice ==
    [][ /\ \A id \in (DOMAIN orders) \cap (DOMAIN orders') :
              (orders[id].status = PENDING /\ orders'[id].status = OPEN) =>
                  /\ StepDone("_fill_pending_entries")
                  /\ orders[id].entry_date = dailyRun'[1].as_of_date
                  /\ id \in DOMAIN dailyRun'[1].lookups
                  /\ dailyRun'[1].lookups[id].kind = "price"
                  /\ orders'[id].entry_price = Some(dailyRun'[1].lookups[id].price)
        /\ StepDone("_fill_pending_entries") =>
              \A id \in DOMAIN dailyRun'[1].lookups :
                  dailyRun'[1].lookups[id].kind # "price" =>
                      /\ orders'[id] = orders[id]
                      /\ orders'[id].status = PENDING
                      /\ IsNone(orders'[id].entry_price)
      ]_vars

\* two orders due the same day: one price found, one lookup returned None
C16_Witness ==
    /\ RunIs("_fill_pending_entries")
    /\ DOMAIN orders = OrderIds
    /\ DOMAIN dailyRun[1].lookups = OrderIds
    /\ dailyRun[1].lookups["paper_a"] = LookupPrice(100)
    /\ dailyRun[1].lookups["paper_b"] = LookupNone
    /\ orders["paper_a"].status = OPEN
    /\ orders["paper_a"].entry_price = Some(100)
    /\ orders["paper_b"].status = PENDING
    /\ IsNone(orders["paper_b"].entry_price)
    /\ dailyRun[1].result = 1

\* C17: every CLOSED order of the book has an exit_price and an entry_price.
C17_ClosedOrdersArePriced ==
    \A id \in DOMAIN orders :
        orders[id].status = CLOSED =>
            /\ ~IsNone(orders[id].exit_price)
            /\ ~IsNone(orders[id].entry_price)

(***************************************************************************)
(* Exit-check properties                                                   *)
(***************************************************************************)

ExIn == exitCheck[1]
\* the exit reason the stated priority gives position i of the checked list
ClaimedReason(i) ==
    LET pos == ExIn.before.open[i]
        price == ExIn.price_getter[pos.symbol]
    IN  IF IsNone(price) THEN ""
        ELSE IF price[1] >= pos.take_profit_price THEN "take_profit"
        ELSE IF price[1] <= pos.stop_loss_price THEN "stop_loss"
        ELSE IF ExIn.check_date >= pos.max_hold_date THEN "max_hold"
        ELSE ""
Staying == { i \in DOMAIN ExIn.before.open : ClaimedReason(i) = "" }
Leaving == { i \in DOMAIN ExIn.before.open : ClaimedReason(i) # "" }

\* C18: after check_exits, the open list is the checked positions with no
\* price or no trigger, in order; the others were closed once each, with the
\* reason take_profit before stop_loss before max_hold, at the check date and
\* the price seen, and appended to the closed list; so every checked position
\* is in exactly one of the two lists.
C18_ExitReasonByPriority ==
    ~IsNone(exitCheck) =>
        LET stay == sorted(Staying)
            leave == sorted(Leaving)
        IN  /\ positions.open = [ k \in DOMAIN stay |-> ExIn.before.open[stay[k]] ]
            /\ Len(ExIn.exits) = Len(leave)
            /\ \A k \in DOMAIN leave :
                  LET pos == ExIn.before.open[leave[k]]
                      closed == ExIn.exits[k]
                  IN  /\ closed.exit_reason = ClaimedReason(leave[k])
                      /\ closed.symbol = pos.symbol
                      /\ closed.entry_price = pos.entry_price
                      /\ closed.max_hold_date = pos.max_hold_date
                      /\ closed.exit_date = ExIn.check_date
                      /\ closed.exit_price = ExIn.price_getter[pos.symbol][1]
            /\ positions.closed = ExIn.before.closed \o ExIn.exits
            /\ Len(positions.open) + Len(ExIn.exits) = Len(ExIn.before.open)

\* both past their max-hold date: one is at its take-profit price and leaves
\* as take_profit, the other has no price and stays open
C18_Witness ==
    /\ ~IsNone(exitCheck)
    /\ Len(ExIn.before.open) = 2
    /\ ExIn.check_date >= ExIn.before.open[1].max_hold_date
    /\ ExIn.check_date >= ExIn.before.open[2].max_hold_date
    /\ ExIn.price_getter[ExIn.before.open[1].symbol]
           = Some(ExIn.before.open[1].take_profit_price)
    /\ IsNone(ExIn.price_getter[ExIn.before.open[2].symbol])
    /\ Len(ExIn.exits) = 1
    /\ ExIn.exits[1].exit_reason = "take_profit"
    /\ positions.open = << ExIn.before.open[2] >>

(***************************************************************************)
(* run_daily properties                                                    *)
(***************************************************************************)

RunnerFn == "PaperTradingRunner.run_daily"
SchedulerFn == "DailyScheduler.run_daily"

\* C20: a daily run (scheduler or runner) whose freeze validation raised
\* returns a result that lists the validation error, with no event analysed,
\* no order created, no entry and no exit executed, and leaves the order book
\* as it was.
C20_FailedValidationHaltsRun ==
    [][ ( /\ (StepDone(SchedulerFn) \/ StepDone(RunnerFn))
          /\ ~IsNone(dailyRun'[1].validation)
          /\ dailyRun'[1].validation[1].error # "" )
        => LET result == dailyRun'[1].result
           IN  /\ result.errors = << ErrorOf(dailyRun'[1].validation[1]) >>
               /\ result.events_analyzed = 0
               /\ result.orders_created = 0
               /\ result.entries_executed = 0
               /\ result.exits_executed = 0
               /\ orders' = orders
      ]_vars

\* a scheduler configured with threshold 0.75 against a manifest frozen at
\* 0.70, with an entry due on the run date
C20_Witness ==
    /\ RunIs(SchedulerFn)
    /\ frozenPeriod
    /\ ~IsNone(manifestFile)
    /\ get_pending_entries(orders, dailyRun[1].as_of_date) # { }
    /\ ~IsNone(dailyRun[1].validation)
    /\ dailyRun[1].validation[1].error = "ValueError"
    /\ Len(dailyRun[1].validation[1].mismatches) = 1
    /\ dailyRun[1].validation[1].mismatches[1].field = "score_threshold"
    /\ Len(dailyRun[1].result.errors) = 1
    /\ dailyRun[1].steps = << "validate_freeze" >>


(***************************************************************************)
(* Order lifecycle, isolation of failures, gate checks                     *)
(***************************************************************************)

\* C21: open_position leaves the order PENDING and get_pending_entries of its
\* entry date returns it; mark_entered(id, p) on a PENDING order leaves it
\* OPEN with entry_price = p and no get_pending_entries returns it any more;
\* mark_exited(id, q) on an OPEN order entered at p leaves it CLOSED with
\* exit_price = q and return_pct = (q - p) / p, which is 10/100 for p = 100,
\* q = 110.
C21_PendingOpenClosedInOrder ==
    [][ /\ \A id \in DOMAIN orders' :
              open_position(id, orders'[id].entry_date, orders'[id].exit_date) =>
                  /\ orders'[id].status = PENDING
                  /\ id \in get_pending_entries(orders', orders'[id].entry_date)
        /\ \A id \in DOMAIN orders, p \in Prices :
              (orders[id].status = PENDING /\ mark_entered(id, p)) =>
                  /\ orders'[id].status = OPEN
                  /\ orders'[id].entry_price = Some(p)
                  /\ \A d \in Dates : id \notin get_pending_entries(orders', d)
        /\ \A id \in DOMAIN orders, q \in Prices :
              (orders[id].status = OPEN /\ ~IsNone(orders[id].entry_price)
                 /\ orders[id].entry_price[1] # 0 /\ mark_exited(id, q)) =>
                  /\ orders'[id].status = CLOSED
                  /\ orders'[id].exit_price = Some(q)
                  /\ orders'[id].return_pct =
                         Some(<< q - orders[id].entry_price[1],
                                 orders[id].entry_price[1] >>)
        /\ ExitedOrder(EnteredOrder(PaperOrder(PENDING, 1, 2), 100), 110).return_pct
               = Some(<< 10, 100 >>)
      ]_vars

\* an order entered at 100 and exited at 0: CLOSED with return -100/100
C21_Witness ==
    /\ "paper_a" \in DOMAIN orders
    /\ orders["paper_a"].status = CLOSED
    /\ orders["paper_a"].entry_price = Some(100)
    /\ orders["paper_a"].exit_price = Some(0)
    /\ orders["paper_a"].return_pct = Some(<< -100, 100 >>)

\* the events of a finished _analyze_events and the signals built for those
\* whose analysis raised
EventsGiven == IF IsNone(runPending) THEN << >> ELSE runPending[1].event_dates
FailedEvents == { k \in DOMAIN dailyRun'[1].signals : dailyRun'[1].signals[k] \in ErrorKinds }
\* the orders due for entry whose price lookup returned None or raised
FailedLookups == { id \in DOMAIN dailyRun'[1].lookups : dailyRun'[1].lookups[id].kind # "price" }

\* C22: in the passes of a daily run a failure on one event or on one order
\* never keeps the others from being processed (_analyze_events hands back a
\* signal for every event, and the entry pass leaves every order whose lookup
\* gave a price OPEN at that price), and each failure is recorded in the run
\* result's errors list: what run_daily appends to result.errors for the
\* signals (step 3) holds one entry for each failed event, and what it
\* appends for the entry pass (step 4) one entry for each failed order.
C22_FailuresIsolatedAndRecorded ==
    [][ /\ StepDone("_analyze_events") =>
              /\ Len(dailyRun'[1].signals) = Len(EventsGiven)
              /\ Len(SignalErrors(dailyRun'[1].signals)) = Cardinality(FailedEvents)
        /\ StepDone("_fill_pending_entries") =>
              /\ \A id \in DOMAIN dailyRun'[1].lookups :
                     dailyRun'[1].lookups[id].kind = "price" =>
                         /\ orders'[id].status = OPEN
                         /\ orders'[id].entry_price = Some(dailyRun'[1].lookups[id].price)
              /\ Len(EntryPassErrors(dailyRun'[1].result)) = Cardinality(FailedLookups)
      ]_vars

GateLlm == GateIn.llm_output[1]
Snippets == GateLlm.evidence_snippets

\* two snippets that differ in speaker, or in section
TwoSpeakers == \E i, j \in DOMAIN Snippets : Snippets[i].speaker # Snippets[j].speaker
TwoSections == \E i, j \in DOMAIN Snippets : Snippets[i].section # Snippets[j].section

\* C23: for a non-null analysis output the gate reports
\* EVIDENCE_NOT_TRIANGULATED exactly when it is not the case that there are at
\* least 2 snippets and (2 distinct speakers or 2 distinct sections); the
\* reported evidence_count has no say in it.
C23_TriangulationFromSnippets ==
    (GateDone /\ ~IsNone(GateIn.llm_output)) =>
        (EVIDENCE_NOT_TRIANGULATED \in Range(GateOut.block_reasons)
            <=> ~(Len(Snippets) >= 2 /\ (TwoSpeakers \/ TwoSections)))

\* two snippets of the same speaker in the same section, evidence_count 3
C23_Witness ==
    /\ GateDone
    /\ ~IsNone(GateIn.llm_output)
    /\ Len(Snippets) = 2
    /\ Snippets[1] = Snippets[2]
    /\ GateLlm.evidence_count = 3
    /\ EVIDENCE_NOT_TRIANGULATED \in Range(GateOut.block_reasons)

\* the reasons whose condition holds for the evaluated output, by the gate's
\* own thresholds
ExpectedReasons ==
    { r \in { DATA_INCOMPLETE, SCORE_TOO_LOW, INSUFFICIENT_EVIDENCE,
              EVIDENCE_NOT_TRIANGULATED, MARGIN_CONCERN, LLM_DECLINED } :
        \/ r = DATA_INCOMPLETE /\ ~GateIn.data_complete
        \/ r = SCORE_TOO_LOW /\ GateLlm.score < gate[1].score_threshold
        \/ r = INSUFFICIENT_EVIDENCE
             /\ GateLlm.evidence_count < gate[1].evidence_min_count
        \/ r = EVIDENCE_NOT_TRIANGULATED
             /\ ~(Len(Snippets) >= 2 /\ (TwoSpeakers \/ TwoSections))
        \/ r = MARGIN_CONCERN
             /\ gate[1].block_on_margin_concern /\ GateLlm.margin_concern
        \/ r = LLM_DECLINED /\ ~GateLlm.trade_candidate }

\* C24: for a non-null analysis output block_reasons holds exactly the
\* reasons whose condition holds (a score equal to the threshold passes), each
\* once, and every check lands in exactly one of passed_checks and
\* block_reasons, so the two lengths sum to 6.
C24_AllSixChecksReported ==
    (GateDone /\ ~IsNone(GateIn.llm_output)) =>
        /\ Range(GateOut.block_reasons) = ExpectedReasons
        /\ Len(GateOut.block_reasons) = Cardinality(ExpectedReasons)
        /\ Len(GateOut.passed_checks) + Len(GateOut.block_reasons) = 6
        /\ GateLlm.score = gate[1].score_threshold
               => SCORE_TOO_LOW \notin Range(GateOut.block_reasons)

\* evidence_count 1 and a single snippet under the default thresholds: two
\* reasons reported together, the other four checks passed
C24_Witness ==
    /\ GateDone
    /\ ~IsNone(GateIn.llm_output)
    /\ gate[1].score_threshold = 70
    /\ gate[1].evidence_min_count = 2
    /\ GateLlm.score = 70
    /\ GateLlm.evidence_count = 1
    /\ Len(Snippets) = 1
    /\ GateOut.block_reasons = << INSUFFICIENT_EVIDENCE, EVIDENCE_NOT_TRIANGULATED >>
    /\ Len(GateOut.passed_checks) = 4
    /\ ~GateOut.trade_long

\* C25: a gate constructed with an explicit score_threshold s and
\* evidence_min_count m uses exactly s and m (0 included): the result reports
\* them as used, SCORE_TOO_LOW is given iff score < s and
\* INSUFFICIENT_EVIDENCE iff evidence_count < m; the settings' defaults are
\* used only for an omitted argument.
C25_ExplicitThresholdsApply ==
    GateDone =>
        /\ GateOut.score_threshold_used =
               IF IsNone(GateIn.score_threshold) THEN strategy_score_threshold
               ELSE GateIn.score_threshold[1]
        /\ GateOut.evidence_min_used =
               IF IsNone(GateIn.evidence_min_count) THEN strategy_evidence_min_count
               ELSE GateIn.evidence_min_count[1]
        /\ (~IsNone(GateIn.llm_output) /\ ~IsNone(GateIn.score_threshold)) =>
               (SCORE_TOO_LOW \in Range(GateOut.block_reasons)
                    <=> GateLlm.score < GateIn.score_threshold[1])
        /\ (~IsNone(GateIn.llm_output) /\ ~IsNone(GateIn.evidence_min_count)) =>
               (INSUFFICIENT_EVIDENCE \in Range(GateOut.block_reasons)
                    <=> GateLlm.evidence_count < GateIn.evidence_min_count[1])

\* the K results with those at positions i and j exchanged
Swapped(results, i, j) ==
    [ n \in DOMAIN results |->
        IF n = i THEN results[j] ELSE IF n = j THEN results[i] ELSE results[n] ]

\* C26: the result of check_event does not depend on the order of the K
\* results: exchanging any two of them (and so any permutation) leaves
\* majority_decision, agreement_rate, is_consistent and recommendation as
\* they are, ties between true and false included.
C26_OrderOfRunsIsIrrelevant ==
    CcChecked =>
        \A i, j \in DOMAIN CcIn.run_results :
            LET other == check_event(CcIn.k, CcIn.min_agreement,
                                     Swapped(CcIn.run_results, i, j))
            IN  /\ other.majority_decision = CcOut.majority_decision
                /\ other.agreement_rate = CcOut.agreement_rate
                /\ other.is_consistent = CcOut.is_consistent
                /\ other.recommendation = CcOut.recommendation

\* C27: the result analyze_with_consistency returns says yes (trade_long
\* true or trade_candidate true) only when the recommendation is TRADE; for
\* NO_TRADE and ABSTAIN neither key of the returned result is true, also when
\* the runs carry a trade_long and a differing trade_candidate.
C27_YesOnlyOnTrade ==
    (MraDone /\ MraOut.consistency_check.recommendation # "TRADE") =>
        /\ MraOut.trade_long # Some(TRUE)
        /\ MraOut.trade_candidate # Some(TRUE)

\* C28: in the frozen period, once a manifest is on disk a validate_runtime
\* call is judged against that manifest, whatever get_frozen_config read
\* earlier: with every supplied value equal to the manifest's it returns
\* True, and with a differing model, prompt version, threshold or evidence
\* minimum (none an empty string) it raises ValueError.
C28_ValidatedAgainstPersistedManifest ==
    (CallIs("validate_runtime") /\ frozenPeriod /\ ~IsNone(manifestFile)
       /\ IsNone(lastCall[1].args.prompt_hash)
       /\ ~EmptyStringSupplied) =>
        /\ RuntimeDiff = { } => Outcome = Returned(TRUE)
        /\ RuntimeDiff \ { "full_audit_model" } # { } =>
               /\ Outcome.error = "ValueError"
               /\ Outcome.mismatches # << >>

\* C29: a PENDING order is a fill candidate only on its entry date: no
\* get_pending_entries of another date selects it, a daily-run step of another
\* date leaves it as it is, and the only step that takes it out of PENDING is
\* an entry pass run on its entry date; an order missed on that date stays
\* PENDING in every later run.  (The one other change the lifecycle can make
\* under its id is a newly placed PENDING order stored over it.)
C29_PendingOnlyOnEntryDate ==
    [][ \A id \in DOMAIN orders :
            orders[id].status = PENDING =>
                /\ \A d \in Dates \ { orders[id].entry_date } :
                       id \notin get_pending_entries(orders, d)
                /\ (~IsNone(dailyRun') /\ dailyRun'[1].as_of_date # orders[id].entry_date)
                       => orders'[id] = orders[id]
                /\ orders'[id] # orders[id] =>
                       \/ /\ StepDone("_fill_pending_entries")
                          /\ dailyRun'[1].as_of_date = orders[id].entry_date
                          /\ orders'[id].status = OPEN
                       \/ /\ IsNone(dailyRun')
                          /\ \E en \in Dates, ex \in Dates :
                                 orders'[id] = PaperOrder(PENDING, en, ex)
      ]_vars

\* an entry pass run on day 2 has filled the order due that day and left
\* the order that was due on day 1 PENDING
C29_Witness ==
    /\ RunIs("_fill_pending_entries")
    /\ dailyRun[1].as_of_date = 2
    /\ dailyRun[1].result = 1
    /\ DOMAIN orders = OrderIds
    /\ orders["paper_a"].status = PENDING
    /\ orders["paper_a"].entry_date = 1
    /\ orders["paper_b"].status = OPEN
    /\ orders["paper_b"].entry_date = 2

\* a step of the book taken by add_order or by open_position
AddingStep ==
    \/ \E id \in OrderIds, st \in OrderStatus, en \in Dates, ex \in Dates :
           add_order(id, st, en, ex)
    \/ \E id \in OrderIds, en \in Dates, ex \in Dates : open_position(id, en, ex)

\* a step that marking, cancelling or closing could have taken as well
OtherBookStep == MarkEntered \/ MarkExited \/ CancelOrder \/ CloseDuePositions

\* C30: add_order and open_position leave every order already in the book
\* as it was (status, prices, dates) and make the book exactly one order
\* larger, whatever id the new order carries.
C30_AddingKeepsStoredOrders ==
    [][ (AddingStep /\ ~OtherBookStep) =>
            /\ \A id \in DOMAIN orders :
                   id \in DOMAIN orders' /\ orders'[id] = orders[id]
            /\ Cardinality(DOMAIN orders') = Cardinality(DOMAIN orders) + 1
      ]_vars

====
